---- MODULE Spec2Model ----
(***************************************************************************)
(* LSB steganography codec of core/stego.py: carrier addressing, payload   *)
(* framing, embedding and extraction, as pure operators applied by the     *)
(* actions of a small session (open an image, query, embed, extract).      *)
(* After the codec: the framing functions on their own, the LSB statistics *)
(* and risk level of core/risk.py, and the attack suite and mode benchmark *)
(* of core/analysis.py, each with a session of its own over the same       *)
(* variables.                                                              *)
(*                                                                         *)
(* Conventions.  bytes = sequence of 0..255; str = sequence of code points;*)
(* an image = [mode, size = <<w, h>>, px = [<<x, y>> -> sequence of band   *)
(* values]].  A Python exception is the field err of a result record       *)
(* ("ok" when nothing was raised).                                         *)
(***************************************************************************)
EXTENDS Integers, Sequences, FiniteSets, TLC

(***************************************************************************)
(* Bounds of the model.                                                    *)
(***************************************************************************)
\* small images: every width and height in 0..MaxSmall
MaxSmall == 3
\* large images: every width and height in MinSide..MaxBig
MaxBig == 8
\* short messages: every string over Alphabet of at most MaxMsgLen characters
MaxMsgLen == 1

(***************************************************************************)
(* Program constants.                                                      *)
(***************************************************************************)
\* the round-trip contract speaks of images of at least this width and height
MinSide == 8
\* len(protected).to_bytes(4, "big"): bytes of the length header
HeaderBytes == 4
\* range(3): colour channels of an RGB pixel
Channels == 3
\* U+FFFD, what errors="replace" substitutes for an ill-formed sequence
Replacement == 65533

SUPPORTED_METHODS == {"sequential", "interleaved"}

(***************************************************************************)
(* Integer and bit arithmetic of Python ints (non-negative operands).      *)
(***************************************************************************)
Pow2(n) == 2 ^ n

Max(a, b) == IF a >= b THEN a ELSE b

\* (v >> i) & 1
BitOf(v, i) == (v \div Pow2(i)) % 2

\* v | (1 << i)
SetBit(v, i) == IF BitOf(v, i) = 1 THEN v ELSE v + Pow2(i)

\* the bit left as it is
KeepBit(v, i) == v

\* v & ~(1 << i)
ClearBit(v, i) == IF BitOf(v, i) = 1 THEN v - Pow2(i) ELSE v

RECURSIVE XorBits(_, _, _)
XorBits(a, b, n) ==
    IF n = 0 THEN 0
    ELSE (((a % 2) + (b % 2)) % 2) + 2 * XorBits(a \div 2, b \div 2, n - 1)

\* a ^ b on byte values
Xor8(a, b) == XorBits(a, b, 8)

\* range(n) as a sequence
Range(n) == [i \in 1..n |-> i - 1]

\* the concatenation ss[lo] \o ... \o ss[hi], halving the range so that
\* the evaluation stays shallow
RECURSIVE FlattenRange(_, _, _)
FlattenRange(ss, lo, hi) ==
    IF lo > hi THEN <<>>
    ELSE IF lo = hi THEN ss[lo]
    ELSE LET mid == (lo + hi) \div 2
         IN FlattenRange(ss, lo, mid) \o FlattenRange(ss, mid + 1, hi)

Flatten(ss) == FlattenRange(ss, 1, Len(ss))

(***************************************************************************)
(* str.encode("utf-8") and bytes.decode("utf-8", errors="replace").        *)
(***************************************************************************)
Utf8EncodeChar(cp) ==
    IF cp < 128 THEN <<cp>>
    ELSE IF cp < 2048 THEN <<192 + (cp \div 64), 128 + (cp % 64)>>
    ELSE IF cp < 65536 THEN
        <<224 + (cp \div 4096), 128 + ((cp \div 64) % 64), 128 + (cp % 64)>>
    ELSE <<240 + (cp \div 262144), 128 + ((cp \div 4096) % 64),
           128 + ((cp \div 64) % 64), 128 + (cp % 64)>>

Utf8Encode(s) == Flatten([i \in 1..Len(s) |-> Utf8EncodeChar(s[i])])

IsCont(b) == b >= 128 /\ b <= 191

\* the range the second byte of a sequence led by b0 must lie in
SecondLo(b0) == IF b0 = 224 THEN 160 ELSE IF b0 = 240 THEN 144 ELSE 128
SecondHi(b0) == IF b0 = 237 THEN 159 ELSE IF b0 = 244 THEN 143 ELSE 191

\* number of bytes of the sequence a lead byte announces (0: not a lead byte)
SeqLen(b0) ==
    IF b0 < 128 THEN 1
    ELSE IF b0 >= 194 /\ b0 <= 223 THEN 2
    ELSE IF b0 >= 224 /\ b0 <= 239 THEN 3
    ELSE IF b0 >= 240 /\ b0 <= 244 THEN 4
    ELSE 0

\* how many bytes from position i on form a valid prefix of one sequence
RECURSIVE ValidPrefix(_, _, _, _)
ValidPrefix(bs, i, k, n) ==
    IF k = n \/ i + k > Len(bs) THEN k
    ELSE LET b == bs[i + k]
             ok == IF k = 1 THEN b >= SecondLo(bs[i]) /\ b <= SecondHi(bs[i])
                   ELSE IsCont(b)
         IN IF ok THEN ValidPrefix(bs, i, k + 1, n) ELSE k

DecodeSeq(bs, i, n) ==
    IF n = 1 THEN bs[i]
    ELSE IF n = 2 THEN (bs[i] - 192) * 64 + (bs[i + 1] - 128)
    ELSE IF n = 3 THEN
        (bs[i] - 224) * 4096 + (bs[i + 1] - 128) * 64 + (bs[i + 2] - 128)
    ELSE (bs[i] - 240) * 262144 + (bs[i + 1] - 128) * 4096
         + (bs[i + 2] - 128) * 64 + (bs[i + 3] - 128)

\* one step of the decoder at position i: the code point it emits and the
\* number of bytes it consumes (an ill-formed sequence gives U+FFFD and
\* consumes its longest valid prefix)
DecodeOne(bs, i) ==
    LET n == SeqLen(bs[i])
    IN IF n = 0 THEN [cp |-> Replacement, len |-> 1]
       ELSE LET k == ValidPrefix(bs, i, 1, n)
            IN IF k = n THEN [cp |-> DecodeSeq(bs, i, n), len |-> n]
               ELSE [cp |-> Replacement, len |-> k]

\* the decoder run from position i over every sequence that starts at or
\* before hi: the text and the position it stops at.  Long ranges are cut in
\* two, the second half resuming where the first stopped.
RECURSIVE Utf8DecodeRange(_, _, _)
Utf8DecodeRange(bs, i, hi) ==
    IF i > hi THEN [text |-> <<>>, next |-> i]
    ELSE IF hi - i < 4
    THEN LET one == DecodeOne(bs, i)
             rest == Utf8DecodeRange(bs, i + one.len, hi)
         IN [text |-> <<one.cp>> \o rest.text, next |-> rest.next]
    ELSE LET mid == (i + hi) \div 2
             left == Utf8DecodeRange(bs, i, mid)
             right == Utf8DecodeRange(bs, left.next, hi)
         IN [text |-> left.text \o right.text, next |-> right.next]

Utf8Decode(bs) == Utf8DecodeRange(bs, 1, Len(bs)).text

(***************************************************************************)
(* Carrier addressing and capacity.                                        *)
(***************************************************************************)
\* the check with the lower limit of the bit depth forgotten
validate_bits_upper_only(bits_per_channel, method) ==
    IF bits_per_channel > 3 THEN "InvalidBits"
    ELSE IF method \notin SUPPORTED_METHODS THEN "UnknownMethod"
    ELSE "ok"

\* raises ValueError: "ok" when it returns, else which message it raised with
validate_bits_and_method(bits_per_channel, method) ==
    IF bits_per_channel \notin {1, 2, 3} THEN "InvalidBits"
    ELSE IF method \notin SUPPORTED_METHODS THEN "UnknownMethod"
    ELSE "ok"

\* every bit plane walked blue first
InterleavedOrderBGR(bits_per_channel) ==
    Flatten([b \in 1..bits_per_channel |->
                [c \in 1..Channels |->
                    <<Range(Channels)[Channels + 1 - c], Range(bits_per_channel)[b]>>]])

\* [(channel, bit_idx) for bit_idx in range(bits) for channel in range(3)]
InterleavedOrder(bits_per_channel) ==
    Flatten([b \in 1..bits_per_channel |->
                [c \in 1..Channels |-> <<Range(Channels)[c], Range(bits_per_channel)[b]>>]])

\* the channels walked blue first
SequentialOrderBGR(bits_per_channel) ==
    Flatten([c \in 1..Channels |->
                [b \in 1..bits_per_channel |->
                    <<Range(Channels)[Channels + 1 - c], Range(bits_per_channel)[b]>>]])

\* [(channel, bit_idx) for channel in range(3) for bit_idx in range(bits)]
SequentialOrder(bits_per_channel) ==
    Flatten([c \in 1..Channels |->
                [b \in 1..bits_per_channel |-> <<Range(Channels)[c], Range(bits_per_channel)[b]>>]])

\* the two comprehensions attached to the wrong methods
get_carrier_order_flipped(bits_per_channel, method) ==
    LET v == validate_bits_and_method(bits_per_channel, method)
    IN IF v # "ok" THEN [err |-> v, order |-> <<>>]
       ELSE IF method = "sequential"
            THEN [err |-> "ok", order |-> InterleavedOrder(bits_per_channel)]
            ELSE [err |-> "ok", order |-> SequentialOrder(bits_per_channel)]

get_carrier_order(bits_per_channel, method) ==
    LET v == validate_bits_and_method(bits_per_channel, method)
    IN IF v # "ok" THEN [err |-> v, order |-> <<>>]
       ELSE IF method = "interleaved"
            THEN [err |-> "ok", order |-> InterleavedOrder(bits_per_channel)]
            ELSE [err |-> "ok", order |-> SequentialOrder(bits_per_channel)]

\* the capacity with the header's four bytes not taken off
max_message_bytes_headerless(image_size, bits_per_channel) ==
    LET v == validate_bits_and_method(bits_per_channel, "sequential")
    IN IF v # "ok" THEN [err |-> v, value |-> 0]
       ELSE [err |-> "ok",
             value |-> (image_size[1] * image_size[2] * 3 * bits_per_channel) \div 8]

\* the capacity without its floor at 0
max_message_bytes_unfloored(image_size, bits_per_channel) ==
    LET v == validate_bits_and_method(bits_per_channel, "sequential")
    IN IF v # "ok" THEN [err |-> v, value |-> 0]
       ELSE [err |-> "ok",
             value |-> ((image_size[1] * image_size[2] * 3 * bits_per_channel) \div 8) - 4]

max_message_bytes(image_size, bits_per_channel) ==
    LET v == validate_bits_and_method(bits_per_channel, "sequential")
    IN IF v # "ok" THEN [err |-> v, value |-> 0]
       ELSE LET width == image_size[1]
                height == image_size[2]
                total_bytes == (width * height * 3 * bits_per_channel) \div 8
            IN [err |-> "ok", value |-> Max(0, total_bytes - 4)]

(***************************************************************************)
(* Bit streams.                                                            *)
(***************************************************************************)
\* for byte in data: for shift in range(7, -1, -1): bits.append((byte >> shift) & 1)
_bytes_to_bits(data) ==
    Flatten([i \in 1..Len(data) |-> [s \in 1..8 |-> BitOf(data[i], 8 - s)]])

\* Python ints are unbounded, TLC's are 32-bit: every value of 2^31 or
\* more is represented by IntTop, which compares against the capacities of the
\* model (all far below it) as the value itself does.
IntTop == Pow2(30) + (Pow2(30) - 1)

RECURSIVE bits_to_int_loop(_, _, _)
bits_to_int_loop(bits, i, value) ==
    IF i > Len(bits) THEN value
    ELSE IF value >= Pow2(30) THEN bits_to_int_loop(bits, i + 1, IntTop)
    ELSE bits_to_int_loop(bits, i + 1, value * 2 + bits[i])

\* the bits taken least-significant first
_bits_to_int_lsb(bits) ==
    bits_to_int_loop([i \in 1..Len(bits) |-> bits[Len(bits) + 1 - i]], 1, 0)

\* value = (value << 1) | int(bit)
_bits_to_int(bits) == bits_to_int_loop(bits, 1, 0)

\* one byte per complete chunk of 8 bits; a shorter last chunk is dropped
_bits_to_bytes(bits) ==
    [k \in 1..(Len(bits) \div 8) |-> _bits_to_int(SubSeq(bits, 8 * k - 7, 8 * k))]

\* n.to_bytes(4, "big")
to_bytes4(n) ==
    [k \in 1..HeaderBytes |-> (n \div Pow2(8 * (HeaderBytes - k))) % 256]

\* int.from_bytes(b, "big")
from_bytes(b) == _bits_to_int(_bytes_to_bits(b))

(***************************************************************************)
(* Payload framing.                                                        *)
(***************************************************************************)
\* the key not repeated: every byte masked with the first key byte
xor_with_password_first(data, password) ==
    IF password = <<>> THEN data
    ELSE LET pw == Utf8Encode(password)
         IN [i \in 1..Len(data) |-> Xor8(data[i], pw[1])]

xor_with_password(data, password) ==
    IF password = <<>> THEN data
    ELSE LET pw == Utf8Encode(password)
         IN [i \in 1..Len(data) |-> Xor8(data[i], pw[((i - 1) % Len(pw)) + 1])]

prepare_payload(message, password) ==
    LET plain == Utf8Encode(message)
        protected == xor_with_password(plain, password)
    IN to_bytes4(Len(protected)) \o protected

\* a buffer longer than the header declares refused as well
decode_payload_exact(payload, password) ==
    IF Len(payload) < 4 THEN [err |-> "TooShort", text |-> <<>>]
    ELSE LET msg_len == from_bytes(SubSeq(payload, 1, 4))
         IN IF Len(payload) - 4 # msg_len THEN [err |-> "Incomplete", text |-> <<>>]
            ELSE [err |-> "ok",
                  text |-> Utf8Decode(xor_with_password(SubSeq(payload, 5, Len(payload)),
                                                        password))]

decode_payload(payload, password) ==
    IF Len(payload) < 4 THEN [err |-> "TooShort", text |-> <<>>]
    ELSE LET msg_len == from_bytes(SubSeq(payload, 1, 4))
             stop == IF msg_len < Len(payload) - 4 THEN 4 + msg_len ELSE Len(payload)
             msg_bytes == SubSeq(payload, 5, stop)
         IN IF Len(msg_bytes) # msg_len THEN [err |-> "Incomplete", text |-> <<>>]
            ELSE [err |-> "ok",
                  text |-> Utf8Decode(xor_with_password(msg_bytes, password))]

(***************************************************************************)
(* Images.  Image objects live in a heap (a sequence of images indexed by  *)
(* reference); reference 1 is the object the caller passed in.             *)
(***************************************************************************)
NoImage == [mode |-> "none", size |-> <<0, 0>>, px |-> <<>>]

Coords(size) == (0..(size[1] - 1)) \X (0..(size[2] - 1))

\* Image.convert("RGB") of a non-RGB image: a new object; L -> (v, v, v)
ImageConvert(heap, ref) ==
    LET src == heap[ref]
        rgb == [mode |-> "RGB", size |-> src.size,
                px |-> [p \in Coords(src.size) |->
                           <<src.px[p][1], src.px[p][1], src.px[p][1]>>]]
    IN [heap |-> Append(heap, rgb), ref |-> Len(heap) + 1]

\* no copy: the same object again
ImageAlias(heap, ref) == [heap |-> heap, ref |-> ref]

\* Image.copy(): a new object with the same content
ImageCopy(heap, ref) ==
    [heap |-> Append(heap, heap[ref]), ref |-> Len(heap) + 1]

(***************************************************************************)
(* Embedding.                                                              *)
(***************************************************************************)
\* no break at the end of the payload: the slots left in the pixel are cleared
RECURSIVE WriteSlotsPadded(_, _, _, _, _)
WriteSlotsPadded(channels, carrier_order, j, bit_stream, idx) ==
    IF j > Len(carrier_order)
    THEN [channels |-> channels, idx |-> IF idx > Len(bit_stream) THEN Len(bit_stream) ELSE idx]
    ELSE LET channel_idx == carrier_order[j][1] + 1
             bit_idx == carrier_order[j][2]
             v == channels[channel_idx]
             nv == IF idx < Len(bit_stream) /\ bit_stream[idx + 1] = 1
                   THEN SetBit(v, bit_idx) ELSE ClearBit(v, bit_idx)
         IN WriteSlotsPadded([channels EXCEPT ![channel_idx] = nv],
                             carrier_order, j + 1, bit_stream, idx + 1)

\* for channel_idx, bit_idx in carrier_order: ... (lines 79-87), from slot j on
RECURSIVE WriteSlots(_, _, _, _, _)
WriteSlots(channels, carrier_order, j, bit_stream, idx) ==
    IF j > Len(carrier_order) \/ idx >= Len(bit_stream)
    THEN [channels |-> channels, idx |-> idx]
    ELSE LET channel_idx == carrier_order[j][1] + 1
             bit_idx == carrier_order[j][2]
             bit == bit_stream[idx + 1]
             v == channels[channel_idx]
             nv == IF bit = 1 THEN SetBit(v, bit_idx) ELSE ClearBit(v, bit_idx)
         IN WriteSlots([channels EXCEPT ![channel_idx] = nv],
                       carrier_order, j + 1, bit_stream, idx + 1)

\* for x in range(w): ... (lines 77-90) in row y, from column x on
\* st = [heap, idx, reads, writes, returned]
RECURSIVE EmbedRow(_, _, _, _, _, _, _)
EmbedRow(st, inRef, outRef, carrier_order, bit_stream, x, y) ==
    IF x >= st.heap[inRef].size[1] THEN st
    ELSE LET r == WriteSlots(st.heap[inRef].px[<<x, y>>], carrier_order, 1,
                             bit_stream, st.idx)
             nst == [heap |-> [st.heap EXCEPT ![outRef].px[<<x, y>>] = r.channels],
                     idx |-> r.idx,
                     reads |-> st.reads + 1,
                     writes |-> st.writes + 1,
                     returned |-> r.idx >= Len(bit_stream)]
         IN IF nst.returned THEN nst
            ELSE EmbedRow(nst, inRef, outRef, carrier_order, bit_stream, x + 1, y)

\* for y in range(h): ... (lines 76-91), from row y on
RECURSIVE EmbedRows(_, _, _, _, _, _)
EmbedRows(st, inRef, outRef, carrier_order, bit_stream, y) ==
    IF y >= st.heap[inRef].size[2] THEN st
    ELSE LET r == EmbedRow(st, inRef, outRef, carrier_order, bit_stream, 0, y)
         IN IF r.returned THEN r
            ELSE EmbedRows(r, inRef, outRef, carrier_order, bit_stream, y + 1)

\* image.size[0] * image.size[1] * 3 * bits_per_channel
total_bits(image, bits_per_channel) ==
    image.size[1] * image.size[2] * 3 * bits_per_channel

\* if payload_bits > total_bits_capacity: raise
exceeds_capacity_ge(payload_bits, total_bits_capacity) ==
    payload_bits >= total_bits_capacity

exceeds_capacity(payload_bits, total_bits_capacity) ==
    payload_bits > total_bits_capacity

\* result: err; requested/available (the numbers in the capacity message);
\* ret, the returned image; input, the caller's object after the call;
\* fresh, whether ret is another object than the caller's; reads/writes, pixel accesses
EncodeFail(image, e, req, avail) ==
    [err |-> e, requested |-> req, available |-> avail, ret |-> NoImage,
     input |-> image, fresh |-> FALSE, reads |-> 0, writes |-> 0]

encode_payload_into_image(image, payload, bits_per_channel, method) ==
    LET v == validate_bits_and_method(bits_per_channel, method)
    IN IF v # "ok" THEN EncodeFail(image, v, 0, 0)
       ELSE
       LET cv == IF image.mode # "RGB" THEN ImageConvert(<<image>>, 1)
                 ELSE [heap |-> <<image>>, ref |-> 1]
           img == cv.heap[cv.ref]
           total_bits_capacity == total_bits(img, bits_per_channel)
           payload_bits == Len(payload) * 8
       IN IF exceeds_capacity(payload_bits, total_bits_capacity)
          THEN EncodeFail(cv.heap[1], "TooLarge", payload_bits, total_bits_capacity)
          ELSE
          LET bit_stream == _bytes_to_bits(payload)
              cp == ImageCopy(cv.heap, cv.ref)
              carrier_order == get_carrier_order(bits_per_channel, method).order
              fin == EmbedRows([heap |-> cp.heap, idx |-> 0, reads |-> 0, writes |-> 0,
                                returned |-> FALSE],
                               cv.ref, cp.ref, carrier_order, bit_stream, 0)
          IN [err |-> "ok", requested |-> payload_bits, available |-> total_bits_capacity,
              ret |-> fin.heap[cp.ref], input |-> fin.heap[1], fresh |-> cp.ref # 1,
              reads |-> fin.reads, writes |-> fin.writes]

encode_text_into_image(image, message, password, bits_per_channel, method) ==
    LET payload == prepare_payload(message, password)
    IN encode_payload_into_image(image, payload, bits_per_channel, method)

(***************************************************************************)
(* Extraction.                                                             *)
(***************************************************************************)
\* the bits one pixel yields: (channels[channel_idx] >> bit_idx) & 1 per slot
PixelBits(channels, carrier_order) ==
    [j \in 1..Len(carrier_order) |->
        BitOf(channels[carrier_order[j][1] + 1], carrier_order[j][2])]

\* the generator run until it has yielded `need` bits or is exhausted
\* g = [bits, reads]: what it has yielded, and the pixels it has read
\* for x in range(w): ... (lines 163-166) in row y, from column x on
RECURSIVE IterRow(_, _, _, _, _, _)
IterRow(g, image, carrier_order, x, y, need) ==
    IF Len(g.bits) >= need \/ x >= image.size[1] THEN g
    ELSE IterRow([bits |-> g.bits \o PixelBits(image.px[<<x, y>>], carrier_order),
                  reads |-> g.reads + 1],
                 image, carrier_order, x + 1, y, need)

\* for y in range(h): ... (lines 162-166), from row y on
RECURSIVE IterRows(_, _, _, _, _)
IterRows(g, image, carrier_order, y, need) ==
    IF Len(g.bits) >= need \/ y >= image.size[2] THEN g
    ELSE IterRows(IterRow(g, image, carrier_order, 0, y, need),
                  image, carrier_order, y + 1, need)

\* the two loops exchanged: x outer, y inner
_iter_bits_column_major(image, bits_per_channel, method, need) ==
    LET turned == [mode |-> image.mode,
                   size |-> <<image.size[2], image.size[1]>>,
                   px |-> [p \in Coords(<<image.size[2], image.size[1]>>) |->
                              image.px[<<p[2], p[1]>>]]]
    IN IterRows([bits |-> <<>>, reads |-> 0], turned,
                get_carrier_order(bits_per_channel, method).order, 0, need)

_iter_bits_from_image(image, bits_per_channel, method, need) ==
    IterRows([bits |-> <<>>, reads |-> 0], image,
             get_carrier_order(bits_per_channel, method).order, 0, need)

\* [next(bits_iter, None) for _ in range(n)] after `from` bits were consumed;
\* None is -1
NextN(stream, from, n) ==
    [k \in 1..n |-> IF from + k <= Len(stream) THEN stream[from + k] ELSE -1]

AnyNone(bits) == \E k \in 1..Len(bits) : bits[k] < 0

\* if msg_len > max_bytes: raise
length_rejected_ge(msg_len, max_bytes) == msg_len >= max_bytes

length_rejected(msg_len, max_bytes) == msg_len > max_bytes

\* result: err; msg_len, the header value read; payload, the returned bytes;
\* input, the caller's object after the call; reads, pixel accesses
DecodeResult(e, image, len, payload, reads) ==
    [err |-> e, msg_len |-> len, payload |-> payload, input |-> image, reads |-> reads]

decode_payload_from_image(image, bits_per_channel, method) ==
    LET v == validate_bits_and_method(bits_per_channel, method)
    IN IF v # "ok" THEN DecodeResult(v, image, 0, <<>>, 0)
       ELSE
       LET cv == IF image.mode # "RGB" THEN ImageConvert(<<image>>, 1)
                 ELSE [heap |-> <<image>>, ref |-> 1]
           img == cv.heap[cv.ref]
           hd == _iter_bits_from_image(img, bits_per_channel, method, 32)
           header_bits == NextN(hd.bits, 0, 32)
       IN IF AnyNone(header_bits)
          THEN DecodeResult("NoHeader", cv.heap[1], 0, <<>>, hd.reads)
          ELSE
          LET msg_len == _bits_to_int(header_bits)
              max_bytes == max_message_bytes(img.size, bits_per_channel).value
          IN IF length_rejected(msg_len, max_bytes)
             THEN DecodeResult("BadLength", cv.heap[1], msg_len, <<>>, hd.reads)
             ELSE
             LET payload_bits_count == msg_len * 8
                 all == _iter_bits_from_image(img, bits_per_channel, method,
                                              32 + payload_bits_count)
                 msg_bits == NextN(all.bits, 32, payload_bits_count)
             IN IF AnyNone(msg_bits)
                THEN DecodeResult("Incomplete", cv.heap[1], msg_len, <<>>, all.reads)
                ELSE DecodeResult("ok", cv.heap[1], msg_len,
                                  to_bytes4(msg_len) \o _bits_to_bytes(msg_bits), all.reads)

\* result of decode_payload_from_image, plus text
decode_text_from_image(image, password, bits_per_channel, method) ==
    LET r == decode_payload_from_image(image, bits_per_channel, method)
    IN IF r.err # "ok" THEN [r EXCEPT !.payload = <<>>] @@ [text |-> <<>>]
       ELSE LET d == decode_payload(r.payload, password)
            IN [r EXCEPT !.err = d.err] @@ [text |-> d.text]

(***************************************************************************)
(* The session, shaped like the unit tests: an image is opened (Init) and  *)
(* one of the codec's functions is called on it; after a successful embed  *)
(* extraction is called on the embedded image (as decode_message does,     *)
(* main_window.py:1008).                                                   *)
(***************************************************************************)
VARIABLES
    image,      \* the opened image (the caller's object)
    encoded,    \* the image the last successful embed returned, or NoImage
    embedded,   \* the arguments of that embed
    call        \* the last call: its arguments and its outcome

vars == <<image, encoded, embedded, call>>

Sizes ==
    ((0..MaxSmall) \X (0..MaxSmall)) \cup ((MinSide..MaxBig) \X (MinSide..MaxBig))

\* pixel number of (x, y) in a row-major walk, used only to paint the test images
PixelNo(size, p) == p[2] * size[1] + p[1]

Fills == {"black", "test", "gradient", "gray"}

FillPixel(fill, i) ==
    CASE fill = "black" -> <<0, 0, 0>>
      [] fill = "test" -> <<93, 127, 149>>
      [] fill = "gradient" -> <<(37 * i + 11) % 256, (91 * i + 5) % 256, (13 * i + 200) % 256>>
      [] fill = "gray" -> <<(29 * i + 7) % 256>>

\* Image.new(mode, size, ...) painted with a fill
NewImage(size, fill) ==
    [mode |-> IF fill = "gray" THEN "L" ELSE "RGB",
     size |-> size,
     px |-> [p \in Coords(size) |-> FillPixel(fill, PixelNo(size, p))]]

Alphabet == {65, 1055}

RECURSIVE StringsUpTo(_)
StringsUpTo(n) ==
    IF n = 0 THEN {<<>>}
    ELSE LET shorter == StringsUpTo(n - 1)
         IN shorter \cup {Append(s, c) : s \in shorter, c \in Alphabet}

\* "x" * n
Filler(n) == [i \in 1..n |-> 120]

\* the messages tried on an image: the short ones and, as test_capacity_check_raises
\* builds them, one of exactly the capacity and one a byte over
Messages(size, bits_per_channel) ==
    LET cap == max_message_bytes(size, bits_per_channel)
    IN StringsUpTo(MaxMsgLen)
       \cup (IF cap.err = "ok" THEN {Filler(cap.value), Filler(cap.value + 1)} ELSE {})

Passwords == {<<>>, <<1087, 107>>}

\* 1, 2, 3 and an unsupported value on either side
BitsArgs == 0..4

MethodArgs == SUPPORTED_METHODS \cup {"random"}

NoArgs == [message |-> <<>>, password |-> <<>>, bits |-> 0, method |-> ""]

NoCall ==
    [op |-> "none", args |-> NoArgs, err |-> "ok", requested |-> 0, available |-> 0,
     ret |-> NoImage, fresh |-> FALSE, reads |-> 0, writes |-> 0,
     order |-> <<>>, value |-> 0, msg_len |-> 0, payload |-> <<>>, text |-> <<>>]

Init ==
    /\ \E size \in Sizes, fill \in Fills : image = NewImage(size, fill)
    /\ encoded = NoImage
    /\ embedded = NoArgs
    /\ call = NoCall

CallGetCarrierOrder(bits, method) ==
    /\ call.op = "none"
    /\ LET r == get_carrier_order(bits, method)
       IN call' = [NoCall EXCEPT !.op = "order",
                                 !.args = [NoArgs EXCEPT !.bits = bits, !.method = method],
                                 !.err = r.err, !.order = r.order]
    /\ UNCHANGED <<image, encoded, embedded>>

CallMaxMessageBytes(bits) ==
    /\ call.op = "none"
    /\ LET r == max_message_bytes(image.size, bits)
       IN call' = [NoCall EXCEPT !.op = "capacity",
                                 !.args = [NoArgs EXCEPT !.bits = bits],
                                 !.err = r.err, !.value = r.value]
    /\ UNCHANGED <<image, encoded, embedded>>

CallEncodeText(message, password, bits, method) ==
    /\ call.op = "none"
    /\ LET a == [message |-> message, password |-> password, bits |-> bits,
                 method |-> method]
           r == encode_text_into_image(image, message, password, bits, method)
       IN /\ call' = [NoCall EXCEPT !.op = "encode", !.args = a, !.err = r.err,
                                    !.requested = r.requested, !.available = r.available,
                                    !.ret = r.ret, !.fresh = r.fresh,
                                    !.reads = r.reads, !.writes = r.writes,
                                    !.payload = prepare_payload(message, password)]
          /\ image' = r.input
          /\ encoded' = r.ret
          /\ embedded' = IF r.err = "ok" THEN a ELSE embedded

CallDecodeText(password, bits, method) ==
    /\ call.op = "none" \/ (call.op = "encode" /\ call.err = "ok")
    /\ LET target == IF encoded # NoImage THEN encoded ELSE image
           r == decode_text_from_image(target, password, bits, method)
       IN /\ call' = [NoCall EXCEPT !.op = "decode",
                                    !.args = [NoArgs EXCEPT !.password = password,
                                                            !.bits = bits,
                                                            !.method = method],
                                    !.err = r.err, !.reads = r.reads,
                                    !.msg_len = r.msg_len,
                                    !.payload = r.payload, !.text = r.text]
          /\ IF encoded # NoImage
             THEN encoded' = r.input /\ image' = image
             ELSE image' = r.input /\ encoded' = encoded
    /\ UNCHANGED embedded

Next ==
    \/ \E bits \in BitsArgs, method \in MethodArgs : CallGetCarrierOrder(bits, method)
    \/ \E bits \in BitsArgs : CallMaxMessageBytes(bits)
    \/ \E bits \in BitsArgs, method \in MethodArgs, password \in Passwords :
          \E message \in Messages(image.size, bits) :
             CallEncodeText(message, password, bits, method)
    \/ \E bits \in BitsArgs, method \in MethodArgs, password \in Passwords :
          CallDecodeText(password, bits, method)

Spec == Init /\ [][Next]_vars

(***************************************************************************)
(* The contract's own arithmetic, written from its formulas and not from   *)
(* the code's loops; the properties below compare the code's results with  *)
(* it.                                                                     *)
(***************************************************************************)
ValidBits == {1, 2, 3}

ValidArgs(a) == a.bits \in ValidBits /\ a.method \in SUPPORTED_METHODS

\* capacityBytes(w, h, bits) = max(0, floor(w*h*3*bits/8) - 4)
capacityBytes(size, bits) ==
    LET raw == ((size[1] * size[2] * 3 * bits) \div 8) - 4
    IN IF raw > 0 THEN raw ELSE 0

\* number of carrier positions of an image
CarrierPositions(size, bits) == 3 * size[1] * size[2] * bits

\* the image extraction is applied to
Target == IF encoded # NoImage THEN encoded ELSE image

\* channel c of pixel p as the codec sees it (a grey pixel counts three times)
ChannelValue(img, p, c) == IF img.mode = "RGB" THEN img.px[p][c + 1] ELSE img.px[p][1]

\* the (channel, bitIndex) of slot j of a pixel
SlotOf(bits, method, j) ==
    IF method = "sequential" THEN <<j \div bits, j % bits>> ELSE <<j % 3, j \div 3>>

\* carrier bit number k (from 0) of an image: pixel k div 3*bits in row-major
\* order, slot k mod 3*bits
CarrierBit(img, bits, method, k) ==
    LET p == k \div (3 * bits)
        slot == SlotOf(bits, method, k % (3 * bits))
        xy == <<p % img.size[1], p \div img.size[1]>>
    IN BitOf(ChannelValue(img, xy, slot[1]), slot[2])

\* the byte spelled, most-significant bit first, by carrier bits k .. k+7
CarrierByte(img, bits, method, k) ==
    128 * CarrierBit(img, bits, method, k) + 64 * CarrierBit(img, bits, method, k + 1)
    + 32 * CarrierBit(img, bits, method, k + 2) + 16 * CarrierBit(img, bits, method, k + 3)
    + 8 * CarrierBit(img, bits, method, k + 4) + 4 * CarrierBit(img, bits, method, k + 5)
    + 2 * CarrierBit(img, bits, method, k + 6) + CarrierBit(img, bits, method, k + 7)

\* the big-endian length L the first 32 carrier bits declare, as its two halves
\* (L = 65536 * DeclaredHi + DeclaredLo)
DeclaredHi(img, bits, method) ==
    256 * CarrierByte(img, bits, method, 0) + CarrierByte(img, bits, method, 8)

DeclaredLo(img, bits, method) ==
    256 * CarrierByte(img, bits, method, 16) + CarrierByte(img, bits, method, 24)

\* L > cap
DeclaredExceeds(img, bits, method, cap) ==
    \/ DeclaredHi(img, bits, method) > cap \div 65536
    \/ /\ DeclaredHi(img, bits, method) = cap \div 65536
       /\ DeclaredLo(img, bits, method) > cap % 65536

\* the UTF-8 byte length of a message
ByteLen(message) == Len(Utf8Encode(message))

(***************************************************************************)
(* Properties.                                                             *)
(***************************************************************************)

\* C1: round trip.  On an RGB image of width and height >= 8, for valid bits
\* and method and any password, a message of at most capacityBytes bytes is
\* embedded without error, and extraction from the embedded image with the
\* same password, bits and method returns exactly the message.
RoundTrip ==
    LET big == /\ image.mode = "RGB"
               /\ image.size[1] >= MinSide
               /\ image.size[2] >= MinSide
    IN /\ ( /\ call.op = "encode"
            /\ ValidArgs(call.args)
            /\ big
            /\ ByteLen(call.args.message) <= capacityBytes(image.size, call.args.bits) )
          => (call.err = "ok" /\ encoded = call.ret /\ encoded # NoImage)
       /\ ( /\ call.op = "decode"
            /\ encoded # NoImage
            /\ big
            /\ ByteLen(embedded.message) <= capacityBytes(image.size, embedded.bits)
            /\ call.args.password = embedded.password
            /\ call.args.bits = embedded.bits
            /\ call.args.method = embedded.method )
          => (call.err = "ok" /\ call.text = embedded.message)

RoundTripWitness ==
    /\ call.op = "decode"
    /\ encoded # NoImage
    /\ image.mode = "RGB"
    /\ image.size[1] >= MinSide
    /\ image.size[2] >= MinSide
    /\ embedded.message = <<1055>>
    /\ embedded.password # <<>>
    /\ call.args.password = embedded.password
    /\ call.args.bits = 3
    /\ embedded.bits = 3
    /\ call.args.method = "interleaved"
    /\ embedded.method = "interleaved"
    /\ call.text = embedded.message

\* C2: max_message_bytes((w, h), bits) = max(0, floor(w*h*3*bits/8) - 4) for
\* bits in {1,2,3}; it is never negative, and it does not decrease when the
\* width, the height or the bit depth grows.
CapacityFormula ==
    (call.op = "capacity" /\ call.args.bits \in ValidBits) =>
        LET w == image.size[1]
            h == image.size[2]
            b == call.args.bits
        IN /\ call.err = "ok"
           /\ call.value = capacityBytes(image.size, b)
           /\ call.value >= 0
           /\ \A w2 \in w..(MaxBig + 1) :
                 max_message_bytes(<<w2, h>>, b).value >= call.value
           /\ \A h2 \in h..(MaxBig + 1) :
                 max_message_bytes(<<w, h2>>, b).value >= call.value
           /\ \A b2 \in b..3 :
                 max_message_bytes(<<w, h>>, b2).value >= call.value

CapacityFormulaWitness ==
    /\ call.op = "capacity"
    /\ call.err = "ok"
    /\ call.value > 0
    /\ (image.size[1] * image.size[2] * 3 * call.args.bits) % 8 # 0

\* C3: with valid bits and method, embedding fails with the capacity error
\* exactly when 8 * len(payload) > 3 * W * H * bits; the error carries the
\* requested and the available bit counts and no image is returned; in
\* particular a message of capacityBytes + 1 bytes is always rejected.
OverCapacityRejected ==
    (call.op = "encode" /\ ValidArgs(call.args)) =>
        LET avail == CarrierPositions(image.size, call.args.bits)
            req == 8 * Len(call.payload)
        IN /\ call.err \in {"ok", "TooLarge"}
           /\ (call.err = "TooLarge") <=> (req > avail)
           /\ (call.err = "TooLarge") =>
                 /\ call.requested = req
                 /\ call.available = avail
                 /\ call.ret = NoImage
                 /\ encoded = NoImage
           /\ (ByteLen(call.args.message) = capacityBytes(image.size, call.args.bits) + 1)
                 => call.err = "TooLarge"

OverCapacityWitness ==
    /\ call.op = "encode"
    /\ ValidArgs(call.args)
    /\ capacityBytes(image.size, call.args.bits) > 0
    /\ ByteLen(call.args.message) = capacityBytes(image.size, call.args.bits) + 1
    /\ call.err = "TooLarge"
    /\ call.requested > call.available

\* C4: embedding a message of exactly capacityBytes bytes succeeds for every
\* image size, also where the capacity formula is floored at 0.
ExactCapacityEmbeds ==
    ( /\ call.op = "encode"
      /\ ValidArgs(call.args)
      /\ ByteLen(call.args.message) = capacityBytes(image.size, call.args.bits) )
    => (call.err = "ok" /\ call.ret # NoImage)

\* C5: the sequential order has the channel as outer and the bit index as
\* inner loop, the interleaved order the other way round; both have length
\* 3 * bits, no duplicate, and hold exactly the pairs {0,1,2} x {0..bits-1}.
CarrierOrderContract ==
    (call.op = "order" /\ ValidArgs(call.args)) =>
        LET b == call.args.bits
            other == IF call.args.method = "sequential" THEN "interleaved"
                     ELSE "sequential"
            theirs == get_carrier_order(b, other).order
        IN /\ call.err = "ok"
           /\ Len(call.order) = 3 * b
           /\ \A j \in 1..(3 * b) :
                 call.order[j] = IF call.args.method = "sequential"
                                 THEN <<(j - 1) \div b, (j - 1) % b>>
                                 ELSE <<(j - 1) % 3, (j - 1) \div 3>>
           /\ \A i, j \in 1..Len(call.order) : i # j => call.order[i] # call.order[j]
           /\ {call.order[j] : j \in 1..Len(call.order)} = (0..2) \X (0..(b - 1))
           /\ {call.order[j] : j \in 1..Len(call.order)}
                 = {theirs[j] : j \in 1..Len(theirs)}
           /\ Len(theirs) = Len(call.order)

CarrierOrderWitness ==
    /\ call.op = "order"
    /\ call.args.bits = 3
    /\ call.args.method = "interleaved"
    /\ call.err = "ok"
    /\ call.order[2] = <<1, 0>>
    /\ call.order[4] = <<0, 1>>

\* whether a call's arguments are rejected by the parameter check
Rejected(c) ==
    \/ c.args.bits \notin ValidBits
    \/ (c.op # "capacity" /\ c.args.method \notin SUPPORTED_METHODS)

\* C6: a call of get_carrier_order, max_message_bytes, embed or extract with
\* bits outside {1,2,3} or (but for max_message_bytes) an unknown method fails
\* with the invalid-parameter error, whatever the image and the payload are
\* (so before the capacity check and the header read), reads and writes no
\* pixel, returns nothing and leaves the images as they were.
InvalidParametersRejectedFirst ==
    [][ (call'.op # "none" /\ Rejected(call')) =>
            /\ call'.err = IF call'.args.bits \notin ValidBits THEN "InvalidBits"
                           ELSE "UnknownMethod"
            /\ call'.reads = 0
            /\ call'.writes = 0
            /\ call'.ret = NoImage
            /\ call'.order = <<>>
            /\ call'.value = 0
            /\ call'.text = <<>>
            /\ (call'.op = "decode" => call'.payload = <<>>)
            /\ image' = image
            /\ (call'.op = "decode" => encoded' = encoded)
            /\ (call'.op = "encode" => encoded' = NoImage) ]_vars

\* an unknown method on an image too small to hold any header
InvalidParametersWitness ==
    /\ call.op = "decode"
    /\ call.args.bits = 2
    /\ call.args.method = "random"
    /\ call.err = "UnknownMethod"
    /\ image.size = <<1, 1>>
    /\ call.reads = 0

\* C7: embed (whether it succeeds or fails) and extract leave every pixel of
\* the image passed to them as it was; a successful embed returns another
\* image object, of the same width and height.
InputNeverMutated ==
    [][ (call'.op \in {"encode", "decode"}) =>
            /\ image' = image
            /\ (call'.op = "decode" => encoded' = encoded)
            /\ (call'.op = "encode" /\ call'.err = "ok") =>
                  /\ call'.fresh
                  /\ call'.ret.size = image.size
                  /\ DOMAIN call'.ret.px = DOMAIN image.px ]_vars

\* an embed that changed pixels in its output
InputNeverMutatedWitness ==
    /\ call.op = "encode"
    /\ call.err = "ok"
    /\ call.fresh
    /\ image = NewImage(image.size, "gradient")
    /\ call.ret.px # image.px
    /\ call.writes > 0

\* C8: with valid bits and method, extraction fails with the missing-header
\* error exactly when the image has fewer than 32 carrier positions;
\* otherwise it fails with the invalid-length error exactly when the length L
\* declared, big-endian, by the first 32 carrier bits exceeds capacityBytes;
\* otherwise it returns the 4-byte big-endian encoding of L followed by the L
\* bytes the next 8 * L carrier bits spell, most-significant bit first.
ExtractionOutcomes ==
    (call.op = "decode" /\ ValidArgs(call.args)) =>
        LET b == call.args.bits
            m == call.args.method
            cap == capacityBytes(Target.size, b)
            hi == DeclaredHi(Target, b, m)
            lo == DeclaredLo(Target, b, m)
        IN IF CarrierPositions(Target.size, b) < 32 THEN call.err = "NoHeader"
           ELSE IF DeclaredExceeds(Target, b, m, cap) THEN call.err = "BadLength"
           ELSE /\ call.err = "ok"
                /\ Len(call.payload) = 4 + (65536 * hi + lo)
                /\ SubSeq(call.payload, 1, 4) = <<hi \div 256, hi % 256, lo \div 256, lo % 256>>
                /\ \A i \in 1..(65536 * hi + lo) :
                      call.payload[4 + i] = CarrierByte(Target, b, m, 32 + 8 * (i - 1))

\* an extraction that returned a body, read in the interleaved order
ExtractionOutcomesWitness ==
    /\ call.op = "decode"
    /\ call.err = "ok"
    /\ call.args.bits = 3
    /\ call.args.method = "interleaved"
    /\ Len(call.payload) > 4
    /\ Target.size[1] # Target.size[2]

\* C9, as stated: extraction from an image into which nothing was embedded
\* always raises.
CleanImageAlwaysRaises ==
    (call.op = "decode" /\ encoded = NoImage) => call.err # "ok"

\* C9, amended: extraction from a clean image raises exactly when the image
\* has fewer than 32 carrier positions (missing header) or the length its
\* first 32 carrier bits declare exceeds capacityBytes (invalid length), as
\* for every image filled with the test colour (93, 127, 149); on any other
\* clean image it returns text, the empty text on an all-black image.
CleanImageRaisesOnBadHeader ==
    (call.op = "decode" /\ encoded = NoImage /\ ValidArgs(call.args)) =>
        LET b == call.args.bits
            m == call.args.method
            short == CarrierPositions(image.size, b) < 32
            long == ~short /\ DeclaredExceeds(image, b, m, capacityBytes(image.size, b))
        IN /\ call.err \in {"ok", "NoHeader", "BadLength"}
           /\ (call.err = "NoHeader") <=> short
           /\ (call.err = "BadLength") <=> long
           /\ (image = NewImage(image.size, "test")) => call.err # "ok"
           /\ (image = NewImage(image.size, "black") /\ ~short) =>
                 (call.err = "ok" /\ call.text = <<>>)

\* the unit test's case: the test colour, bits = 1, sequential, invalid length
CleanImageWitness ==
    /\ call.op = "decode"
    /\ encoded = NoImage
    /\ image = NewImage(image.size, "test")
    /\ image.size[1] >= MinSide
    /\ call.args.bits = 1
    /\ call.args.method = "sequential"
    /\ call.args.password = <<>>
    /\ call.err = "BadLength"

\* whether an extraction used another (bits, method) than the embed, and the
\* same password
CrossDecode ==
    /\ call.op = "decode"
    /\ encoded # NoImage
    /\ ValidArgs(call.args)
    /\ call.args.password = embedded.password
    /\ <<call.args.bits, call.args.method>> # <<embedded.bits, embedded.method>>

\* C10, as stated: extraction with another (bits, method) than the message m
\* was embedded with fails with a header/length error or returns a text that
\* is not m.
CrossDecodeNeverReturnsMessage ==
    CrossDecode =>
        \/ call.err \in {"NoHeader", "BadLength"}
        \/ (call.err = "ok" /\ call.text # embedded.message)

\* C10, amended: extraction with another (bits, method) fails with a
\* header/length error or returns text, and never fails otherwise; the text
\* is m itself whenever both pairs have bits = 1, where the two methods
\* address the same carrier bits in the same order.
CrossDecodeOutcome ==
    CrossDecode =>
        /\ call.err \in {"ok", "NoHeader", "BadLength"}
        /\ (call.args.bits = 1 /\ embedded.bits = 1) =>
              (call.err = "ok" /\ call.text = embedded.message)

\* embedded sequentially at one bit, read back interleaved
CrossDecodeWitness ==
    /\ CrossDecode
    /\ embedded.bits = 1
    /\ embedded.method = "sequential"
    /\ call.args.bits = 1
    /\ call.args.method = "interleaved"
    /\ embedded.message = <<1055>>
    /\ embedded.password # <<>>
    /\ call.text = embedded.message

(***************************************************************************)
(* The framing functions called on their own: prepare_payload on a message *)
(* and a password, decode_payload on any byte buffer (one that was just    *)
(* framed, as it is, cut or extended, or one taken from the wire).         *)
(***************************************************************************)
\* longest body of the raw buffers handed to decode_payload
MaxBodyLen == 3

\* one code point of each UTF-8 length: A, П, €, U+1F600
FramingAlphabet == {65, 1055, 8364, 128512}

\* the messages framed: up to two characters, and one of 258 bytes, whose
\* length does not fit the last header byte
FramedMessages ==
    {<<>>} \cup {<<c>> : c \in FramingAlphabet}
    \cup {<<c, d>> : c \in FramingAlphabet, d \in FramingAlphabet}
    \cup {Filler(258)}

FramingPasswords == {<<>>, <<107>>, <<1087, 107>>}

\* an ASCII byte, a continuation byte, the lead bytes of a 2-byte and of a
\* 4-byte sequence
BodyBytes == {65, 159, 208, 240}

\* headers declaring 0..MaxBodyLen + 1, 256 and 2^32 - 1
Headers ==
    {to_bytes4(n) : n \in 0..(MaxBodyLen + 1)} \cup {<<0, 0, 1, 0>>, <<255, 255, 255, 255>>}

\* buffers too short for a header, and a header followed by any body
RawBuffers ==
    UNION {[1..n -> {0, 2}] : n \in 0..(HeaderBytes - 1)}
    \cup {h \o b : h \in Headers, b \in UNION {[1..n -> BodyBytes] : n \in 0..MaxBodyLen}}

\* what decode_payload is called on
Buffers ==
    IF call.op = "prepare_payload"
    THEN {call.payload, SubSeq(call.payload, 1, Len(call.payload) - 1),
          call.payload \o <<0>>}
    ELSE RawBuffers

PayloadInit ==
    /\ image = NoImage
    /\ encoded = NoImage
    /\ embedded = NoArgs
    /\ call = NoCall

\* payload = prepare_payload(message, password); embedded keeps the arguments
CallPreparePayload(message, password) ==
    /\ call.op = "none"
    /\ LET a == [NoArgs EXCEPT !.message = message, !.password = password]
       IN /\ call' = [NoCall EXCEPT !.op = "prepare_payload", !.args = a,
                                    !.payload = prepare_payload(message, password)]
          /\ embedded' = a
    /\ UNCHANGED <<image, encoded>>

\* decode_payload(payload, password); call.payload is the buffer passed in
CallDecodePayload(payload, password) ==
    /\ call.op \in {"none", "prepare_payload"}
    /\ LET r == decode_payload(payload, password)
       IN call' = [NoCall EXCEPT !.op = "decode_payload",
                                 !.args = [NoArgs EXCEPT !.password = password],
                                 !.err = r.err, !.payload = payload, !.text = r.text]
    /\ UNCHANGED <<image, encoded, embedded>>

PayloadNext ==
    \/ \E message \in FramedMessages, password \in FramingPasswords :
          CallPreparePayload(message, password)
    \/ \E password \in FramingPasswords : \E payload \in Buffers :
          CallDecodePayload(payload, password)

PayloadSpec == PayloadInit /\ [][PayloadNext]_vars

\* a XOR b on byte values, bit by bit
XorBit(a, b, k) == Pow2(k) * ((BitOf(a, k) + BitOf(b, k)) % 2)

XorByte(a, b) ==
    XorBit(a, b, 0) + XorBit(a, b, 1) + XorBit(a, b, 2) + XorBit(a, b, 3)
    + XorBit(a, b, 4) + XorBit(a, b, 5) + XorBit(a, b, 6) + XorBit(a, b, 7)

\* byte i (from 1) of a body masked or unmasked with the key (the UTF-8 bytes
\* of the password): itself for the empty key, else XOR key[(i - 1) mod len(key)]
Masked(body, key, i) ==
    IF key = <<>> THEN body[i]
    ELSE XorByte(body[i], key[((i - 1) % Len(key)) + 1])

\* C11: prepare_payload(message, password) is a 4-byte big-endian header
\* followed by the masked body; body byte i is utf8(message)[i] XOR
\* key[i mod len(key)] (the UTF-8 bytes themselves for the empty password);
\* the header value is the body length, which is the UTF-8 length of the
\* message; so the bytes are a function of (password, message) alone.
Framing ==
    (call.op = "prepare_payload") =>
        LET p == call.payload
            plain == Utf8Encode(call.args.message)
            key == Utf8Encode(call.args.password)
            body == SubSeq(p, 5, Len(p))
        IN /\ Len(p) = 4 + Len(plain)
           /\ \A k \in 1..4 : p[k] \in 0..255
           /\ (16777216 * p[1]) + (65536 * p[2]) + (256 * p[3]) + p[4] = Len(body)
           /\ Len(body) = ByteLen(call.args.message)
           /\ \A i \in 1..Len(body) : body[i] = Masked(plain, key, i)
           /\ (call.args.password = <<>>) => body = plain

\* a body longer than the key, so that the key is repeated
FramingWitness ==
    /\ call.op = "prepare_payload"
    /\ call.args.password = <<1087, 107>>
    /\ call.args.message = <<8364, 1055>>
    /\ Len(call.payload) = 9
    /\ call.payload[4] = 5
    /\ call.payload[8] # Utf8Encode(call.args.message)[4]

\* the length a buffer's header declares, as its two halves
HeaderHi(p) == (256 * p[1]) + p[2]

HeaderLo(p) == (256 * p[3]) + p[4]

\* the declared length exceeds the n bytes that follow the header
DeclaresMoreThan(p, n) ==
    \/ HeaderHi(p) > n \div 65536
    \/ (HeaderHi(p) = n \div 65536 /\ HeaderLo(p) > n % 65536)

\* C12: decode_payload fails exactly when the buffer has fewer than 4 bytes
\* or fewer bytes after the header than the header declares; otherwise it
\* returns text whatever the body and the password are: the decoding of the
\* unmasked declared bytes, with U+FFFD wherever they are not UTF-8; the
\* bytes beyond the declared length change nothing.
DecodePayloadOutcomes ==
    (call.op = "decode_payload") =>
        LET p == call.payload
            short == Len(p) < 4
            cut == ~short /\ DeclaresMoreThan(p, Len(p) - 4)
        IN /\ (call.err = "TooShort") <=> short
           /\ (call.err = "Incomplete") <=> cut
           /\ (call.err = "ok") <=> (~short /\ ~cut)
           /\ (call.err # "ok") => call.text = <<>>
           /\ (call.err = "ok") =>
                 LET L == (65536 * HeaderHi(p)) + HeaderLo(p)
                     key == Utf8Encode(call.args.password)
                     declared == SubSeq(p, 5, 4 + L)
                     plain == [i \in 1..L |-> Masked(declared, key, i)]
                 IN /\ call.text = Utf8Decode(plain)
                    /\ \/ Utf8Encode(call.text) = plain
                       \/ \E i \in 1..Len(call.text) : call.text[i] = Replacement
                    /\ call.text = decode_payload(SubSeq(p, 1, 4 + L),
                                                  call.args.password).text

\* a framed message read with another password, a zero byte added after it
DecodePayloadWitness ==
    /\ call.op = "decode_payload"
    /\ call.err = "ok"
    /\ embedded.message = <<8364, 1055>>
    /\ embedded.password = <<>>
    /\ call.args.password = <<1087, 107>>
    /\ Len(call.payload) = 10
    /\ call.text # embedded.message
    /\ \E i \in 1..Len(call.text) : call.text[i] = Replacement

(***************************************************************************)
(* core/risk.py.  A Python float is modelled by the exact ratio of two     *)
(* integers in lowest terms, [num, den] with den > 0.                      *)
(***************************************************************************)
Abs(x) == IF x < 0 THEN 0 - x ELSE x

RECURSIVE Gcd(_, _)
Gcd(a, b) == IF b = 0 THEN a ELSE Gcd(b, a % b)

\* n / d for d > 0
Ratio(n, d) ==
    LET g == Gcd(Abs(n), d)
    IN [num |-> IF n < 0 THEN 0 - (Abs(n) \div g) ELSE n \div g, den |-> d \div g]

\* float(n)
FromInt(n) == [num |-> n, den |-> 1]

RatAdd(a, b) == Ratio((a.num * b.den) + (b.num * a.den), a.den * b.den)

RatSub(a, b) == Ratio((a.num * b.den) - (b.num * a.den), a.den * b.den)

RatMul(a, b) == Ratio(a.num * b.num, a.den * b.den)

\* a / b for b > 0
RatDiv(a, b) == Ratio(a.num * b.den, a.den * b.num)

RatAbs(a) == [num |-> Abs(a.num), den |-> a.den]

\* a <= b, a < b
RatLE(a, b) == a.num * b.den <= b.num * a.den

RatLT(a, b) == a.num * b.den < b.num * a.den

\* max(a, b), min(a, b)
RatMax(a, b) == IF RatLE(b, a) THEN a ELSE b

RatMin(a, b) == IF RatLE(a, b) THEN a ELSE b

\* int(np.sum(lsb == b)) for lsb = pixels[:, :, channel] & 1
LsbCount(pixels, channel, b) ==
    Cardinality({p \in Coords(pixels.size) : pixels.px[p][channel + 1] % 2 = b})

\* the threshold met, not only exceeded
is_suspicious_ge(chi2) == RatLE(FromInt(10), chi2)

\* bool(chi2 > 10.0)
is_suspicious(chi2) == RatLT(FromInt(10), chi2)

\* the record returned for img is None
NeutralStats ==
    [chi2 |-> FromInt(0), zero_bits |-> 0, one_bits |-> 0, suspicious |-> FALSE]

\* lines 20-29: the record computed from the two counts
lsb_stats(count0, count1) ==
    LET total == count0 + count1
        expected == RatMax(FromInt(1), Ratio(total, 2))
        d0 == RatSub(FromInt(count0), expected)
        d1 == RatSub(FromInt(count1), expected)
        chi2 == RatAdd(RatDiv(RatMul(d0, d0), expected), RatDiv(RatMul(d1, d1), expected))
    IN [chi2 |-> chi2, zero_bits |-> count0, one_bits |-> count1,
        suspicious |-> is_suspicious(chi2)]

chi_square_lsb_test(img) ==
    IF img = NoImage THEN NeutralStats
    ELSE LET pixels == IF img.mode = "RGB" THEN img
                       ELSE LET cv == ImageConvert(<<img>>, 1) IN cv.heap[cv.ref]
             count0 == LsbCount(pixels, 0, 0) + LsbCount(pixels, 1, 0) + LsbCount(pixels, 2, 0)
             count1 == LsbCount(pixels, 0, 1) + LsbCount(pixels, 1, 1) + LsbCount(pixels, 2, 1)
         IN lsb_stats(count0, count1)

\* abs(chi1 - chi0) / 1e-9 for a non-zero difference: every difference of
\* the model is at least 1/2^13, so the quotient is above 2^16 and stands
\* against the thresholds as this value does
ChiShiftTop == FromInt(Pow2(16))

\* usage_ratio > 0.40
usage_high_strict(usage_ratio) == RatLT(Ratio(40, 100), usage_ratio)

\* usage_ratio >= 0.40
usage_high(usage_ratio) == RatLE(Ratio(40, 100), usage_ratio)

\* the middle level given for the statistics only, never for the usage alone
evaluate_risk_by_statistics(usage_arg, stats_orig, stats_enc) ==
    LET usage_ratio == RatMax(FromInt(0), RatMin(FromInt(1), usage_arg))
        z0 == stats_orig.zero_bits
        o0 == stats_orig.one_bits
        z1 == stats_enc.zero_bits
        o1 == stats_enc.one_bits
        t0 == Max(1, z0 + o0)
        t1 == Max(1, z1 + o1)
        imbalance_orig == Ratio(Abs(z0 - o0), t0)
        imbalance_stego == Ratio(Abs(z1 - o1), t1)
        delta_imbalance == RatMax(FromInt(0), RatSub(imbalance_stego, imbalance_orig))
        chi0 == stats_orig.chi2
        chi1 == stats_enc.chi2
        diff == RatAbs(RatSub(chi1, chi0))
        chi_shift == IF chi0.num # 0 THEN RatDiv(diff, RatAbs(chi0))
                     ELSE IF diff.num = 0 THEN FromInt(0)
                     ELSE ChiShiftTop
        suspicious == stats_enc.suspicious
    IN IF /\ usage_high(usage_ratio)
          /\ (RatLE(Ratio(2, 100), delta_imbalance) \/ RatLE(Ratio(20, 100), chi_shift))
       THEN [level |-> "HIGH", reason |-> "high", usage_ratio |-> usage_ratio]
       ELSE IF \/ /\ RatLE(Ratio(8, 100), usage_ratio)
                  /\ (RatLE(Ratio(1, 100), delta_imbalance)
                      \/ RatLE(Ratio(8, 100), chi_shift))
               \/ (RatLE(Ratio(12, 100), usage_ratio) /\ suspicious)
       THEN [level |-> "MEDIUM", reason |-> "medium", usage_ratio |-> usage_ratio]
       ELSE [level |-> "LOW", reason |-> "low", usage_ratio |-> usage_ratio]

\* result: level; reason, which of the three texts; usage_ratio, the clamped
\* ratio the text quotes
evaluate_risk(usage_arg, stats_orig, stats_enc) ==
    LET usage_ratio == RatMax(FromInt(0), RatMin(FromInt(1), usage_arg))
        z0 == stats_orig.zero_bits
        o0 == stats_orig.one_bits
        z1 == stats_enc.zero_bits
        o1 == stats_enc.one_bits
        t0 == Max(1, z0 + o0)
        t1 == Max(1, z1 + o1)
        imbalance_orig == Ratio(Abs(z0 - o0), t0)
        imbalance_stego == Ratio(Abs(z1 - o1), t1)
        delta_imbalance == RatMax(FromInt(0), RatSub(imbalance_stego, imbalance_orig))
        chi0 == stats_orig.chi2
        chi1 == stats_enc.chi2
        diff == RatAbs(RatSub(chi1, chi0))
        chi_shift == IF chi0.num # 0 THEN RatDiv(diff, RatAbs(chi0))
                     ELSE IF diff.num = 0 THEN FromInt(0)
                     ELSE ChiShiftTop
        suspicious == stats_enc.suspicious
    IN IF /\ usage_high(usage_ratio)
          /\ (RatLE(Ratio(2, 100), delta_imbalance) \/ RatLE(Ratio(20, 100), chi_shift))
       THEN [level |-> "HIGH", reason |-> "high", usage_ratio |-> usage_ratio]
       ELSE IF \/ RatLE(Ratio(18, 100), usage_ratio)
               \/ /\ RatLE(Ratio(8, 100), usage_ratio)
                  /\ (RatLE(Ratio(1, 100), delta_imbalance)
                      \/ RatLE(Ratio(8, 100), chi_shift))
               \/ (RatLE(Ratio(12, 100), usage_ratio) /\ suspicious)
       THEN [level |-> "MEDIUM", reason |-> "medium", usage_ratio |-> usage_ratio]
       ELSE [level |-> "LOW", reason |-> "low", usage_ratio |-> usage_ratio]

(***************************************************************************)
(* The statistics called on their own: chi_square_lsb_test on the opened   *)
(* image (or on none), evaluate_risk on a usage ratio and two records.     *)
(***************************************************************************)
\* an image whose pixels all have their first `ones` channels odd
Tinted(size, ones) ==
    [mode |-> "RGB", size |-> size,
     px |-> [p \in Coords(size) |-> [c \in 1..Channels |-> IF c <= ones THEN 255 ELSE 254]]]

\* no pixel (two ways), one pixel, a few, 30 (where chi2 can be exactly 10),
\* and the smallest image of the round-trip contract
RiskSizes == {<<0, 0>>, <<0, 2>>, <<1, 1>>, <<2, 3>>, <<5, 6>>, <<MinSide, MinSide>>}

RiskImages ==
    {NewImage(size, fill) : size \in RiskSizes, fill \in Fills}
    \cup {Tinted(size, ones) : size \in RiskSizes, ones \in 0..Channels}

\* usage ratios in units of 1/100000: out of [0, 1] on both sides, and each
\* threshold of the table with the value just below it
UsageArgs ==
    {Ratio(n, 100000) : n \in {0 - 5000, 0, 7999, 8000, 11999, 12000, 17999, 18000,
                               39999, 40000, 100000, 150000}}

\* (zero_bits, one_bits): empty, balanced, imbalance 0.01 and 0.02 and just
\* below each
CountPairs ==
    {<<0, 0>>, <<100, 100>>, <<101, 99>>, <<102, 98>>, <<1009, 991>>, <<1019, 981>>}

\* records handed to evaluate_risk by a caller that has no image: any
\* mapping is accepted.  chi2 of the second record: 12.5 shifted by 0, 0.06,
\* 0.08, 0.18, 0.20 (up and down), and 0
OrigRecords ==
    {[chi2 |-> c, zero_bits |-> zo[1], one_bits |-> zo[2], suspicious |-> FALSE] :
        zo \in CountPairs, c \in {FromInt(0), Ratio(25, 2)}}

EncRecords ==
    {[chi2 |-> c, zero_bits |-> zo[1], one_bits |-> zo[2], suspicious |-> s] :
        zo \in CountPairs, s \in BOOLEAN,
        c \in {FromInt(0), FromInt(10), Ratio(25, 2), Ratio(53, 4), Ratio(27, 2),
               Ratio(59, 4), FromInt(15)}}

\* stats_orig = chi_square_lsb_test(self.image)
StatsOrig == IF image = NoImage THEN OrigRecords ELSE {chi_square_lsb_test(image)}

\* stats_stego = chi_square_lsb_test(encoded), encoded of the size of the image
StatsEnc ==
    IF image = NoImage THEN EncRecords
    ELSE {chi_square_lsb_test(img) : img \in {i \in RiskImages : i.size = image.size}}

RiskInit ==
    /\ image \in RiskImages \cup {NoImage}
    /\ encoded = NoImage
    /\ embedded = NoArgs
    /\ call = NoCall

CallChiSquare ==
    /\ call.op = "none"
    /\ call' = [op |-> "chi_square", err |-> "ok", stats |-> chi_square_lsb_test(image)]
    /\ UNCHANGED <<image, encoded, embedded>>

CallEvaluateRisk(usage, stats_orig, stats_enc) ==
    /\ call.op = "none"
    /\ LET r == evaluate_risk(usage, stats_orig, stats_enc)
       IN call' = [op |-> "evaluate_risk", err |-> "ok", usage |-> usage,
                   stats_orig |-> stats_orig, stats_enc |-> stats_enc,
                   level |-> r.level, reason |-> r.reason, usage_ratio |-> r.usage_ratio]
    /\ UNCHANGED <<image, encoded, embedded>>

RiskNext ==
    \/ CallChiSquare
    \/ \E usage \in UsageArgs, stats_orig \in StatsOrig, stats_enc \in StatsEnc :
          CallEvaluateRisk(usage, stats_orig, stats_enc)

RiskSpec == RiskInit /\ [][RiskNext]_vars

\* the usage ratio of a call clamped to [0, 1], in units of 1/100000
ClampedUsage(usage) ==
    LET n == usage.num * (100000 \div usage.den)
    IN IF n < 0 THEN 0 ELSE IF n > 100000 THEN 100000 ELSE n

\* max(1, zero + one) and |zero - one| of a record
Total(s) == IF s.zero_bits + s.one_bits > 1 THEN s.zero_bits + s.one_bits ELSE 1

Spread(s) == Abs(s.zero_bits - s.one_bits)

\* deltaImbalance >= k/100 and = k/100, for k > 0, both sides multiplied by
\* 100 * Total(s0) * Total(s1)
DeltaAtLeast(s0, s1, k) ==
    100 * ((Spread(s1) * Total(s0)) - (Spread(s0) * Total(s1))) >= k * Total(s0) * Total(s1)

DeltaExactly(s0, s1, k) ==
    100 * ((Spread(s1) * Total(s0)) - (Spread(s0) * Total(s1))) = k * Total(s0) * Total(s1)

\* chiShift >= k/100, for k > 0, with eps = 1e-9: for chi0 = n0/d0 > eps and
\* chi1 = n1/d1, 100 * |n1*d0 - n0*d1| >= k * d1 * n0; for chi0 = 0,
\* k * d1 <= 100 * 10^9 * |n1|
ChiShiftAtLeast(s0, s1, k) ==
    LET n0 == Abs(s0.chi2.num)
        d0 == s0.chi2.den
        n1 == Abs(s1.chi2.num)
        d1 == s1.chi2.den
    IN IF n0 # 0 THEN 100 * Abs((s1.chi2.num * d0) - (s0.chi2.num * d1)) >= k * d1 * n0
       ELSE n1 # 0 /\ ((k * d1) + (100 * n1) - 1) \div (100 * n1) <= 1000000000

LsbPairs(img, b) ==
    Cardinality({pc \in Coords(img.size) \X (0..2) :
                    ChannelValue(img, pc[1], pc[2]) % 2 = b})

\* C14: on an image with at least one pixel chi_square_lsb_test counts the
\* least-significant bit of every channel of every pixel once (zero_bits +
\* one_bits = 3*W*H); chi2 is the sum over b of (observed_b - total/2)^2 /
\* (total/2), which is (zero_bits - one_bits)^2 / total and >= 0; suspicious
\* is true exactly when chi2 > 10.0.
ChiSquareContract ==
    (call.op = "chi_square" /\ image # NoImage /\ image.size[1] * image.size[2] >= 1) =>
        LET z == call.stats.zero_bits
            o == call.stats.one_bits
            total == 3 * image.size[1] * image.size[2]
            chi2 == call.stats.chi2
        IN /\ call.err = "ok"
           /\ z = LsbPairs(image, 0)
           /\ o = LsbPairs(image, 1)
           /\ z + o = total
           /\ chi2.num * (2 * total)
                 = chi2.den * ((((2 * z) - total) * ((2 * z) - total))
                               + (((2 * o) - total) * ((2 * o) - total)))
           /\ chi2.num * total = chi2.den * ((z - o) * (z - o))
           /\ chi2.num >= 0
           /\ chi2.den > 0
           /\ call.stats.suspicious <=> (chi2.num > 10 * chi2.den)

\* 30 pixels with one odd channel each: chi2 is exactly 10, not suspicious
ChiSquareWitness ==
    /\ call.op = "chi_square"
    /\ image = Tinted(<<5, 6>>, 1)
    /\ call.stats.zero_bits = 60
    /\ call.stats.one_bits = 30
    /\ call.stats.chi2 = FromInt(10)
    /\ ~call.stats.suspicious

\* whether a record has zero totals or chi2 = 0
Degenerate(s) == s.zero_bits + s.one_bits = 0 \/ s.chi2.num = 0

\* C15: chi_square_lsb_test on an image without pixels returns, without
\* error, the neutral record chi2 = 0, zero_bits = 0, one_bits = 0,
\* suspicious = false, as it does for a missing image; evaluate_risk returns a
\* level without error when a stats record has zero totals or chi2 = 0.
DegenerateInputNeutral ==
    /\ (call.op = "chi_square" /\ image.size[1] * image.size[2] = 0) =>
          /\ call.err = "ok"
          /\ call.stats = NeutralStats
          /\ call.stats = chi_square_lsb_test(NoImage)
    /\ ( /\ call.op = "evaluate_risk"
         /\ (Degenerate(call.stats_orig) \/ Degenerate(call.stats_enc)) ) =>
          /\ call.err = "ok"
          /\ call.level \in {"HIGH", "MEDIUM", "LOW"}

(***************************************************************************)
(* core/analysis.py: the attack suite.  The four lossy transforms are      *)
(* computed by the imaging libraries; each is modelled by the damage it    *)
(* leaves in the pixels, chosen among Distortions at every call.           *)
(***************************************************************************)
\* attack_id of the rows of suite, in order
Suite == <<"baseline", "jpeg_q35", "resize_70", "noise_12", "blur_1">>

\* what a lossy transform does to an RGB image of the same size: nothing that
\* reaches a pixel, every value off by one, every pixel the same grey
Distortions == {"none", "flip", "flat"}

Distort(img, d) ==
    CASE d = "none" -> img
      [] d = "flip" ->
            [img EXCEPT !.px = [p \in Coords(img.size) |->
                [c \in 1..Channels |-> IF img.px[p][c] % 2 = 0 THEN img.px[p][c] + 1
                                       ELSE img.px[p][c] - 1]]]
      [] d = "flat" -> [img EXCEPT !.px = [p \in Coords(img.size) |-> <<128, 128, 128>>]]

\* encoded_image.convert("RGB"): a new image in every case
ToRGB(img) ==
    IF img.mode = "RGB" THEN img
    ELSE LET cv == ImageConvert(<<img>>, 1) IN cv.heap[cv.ref]

\* the baseline damaged like the recompression
attack_transform_lossy(attack_id, img, damage) ==
    IF attack_id = "baseline" THEN Distort(img, damage["jpeg_q35"])
    ELSE Distort(img, damage[attack_id])

\* transform(encoded_image.convert("RGB")) of the attack
attack_transform(attack_id, img, damage) ==
    IF attack_id = "baseline"
    THEN LET cp == ImageCopy(<<img>>, 1) IN cp.heap[cp.ref]
    ELSE Distort(img, damage[attack_id])

\* the decode outside any try: its failure leaves the loop
attack_row_uncaught(attack_id, r, expected_text) ==
    [raised |-> r.err,
     row |-> [id |-> attack_id, success |-> r.err = "ok" /\ r.text = expected_text,
              error |-> "none", extracted |-> r.text]]

\* lines 39-55, r being what decode_text_from_image gave on the transformed
\* image: raised, what leaves the loop body ("ok": nothing); row, the row
\* appended (extracted is the text preview_text is made from)
attack_row(attack_id, r, expected_text) ==
    [raised |-> "ok",
     row |-> [id |-> attack_id,
              success |-> r.err = "ok" /\ r.text = expected_text,
              error |-> IF r.err = "ok" THEN "none" ELSE r.err,
              extracted |-> IF r.err = "ok" THEN r.text ELSE <<>>]]

\* rows.append(...): the state of the loop after the attack whose row is r
attack_append(st, transformed, r) ==
    [err |-> r.raised,
     rows |-> IF r.raised = "ok" THEN Append(st.rows, r.row) ELSE st.rows,
     transformed |-> Append(st.transformed, transformed)]

\* lines 38-55, the body of the loop for one attack on its transformed image
attack_step(st, attack_id, transformed, expected_text, password, bits_per_channel, method) ==
    attack_append(st, transformed,
                  attack_row(attack_id,
                             decode_text_from_image(transformed, password,
                                                    bits_per_channel, method),
                             expected_text))

\* for attack_id, attack_name, transform in suite: ..., from attack k on
\* st = [err, rows, transformed]
RECURSIVE AttackLoop(_, _, _, _, _, _, _, _)
AttackLoop(st, k, encoded_image, expected_text, password, bits_per_channel, method, damage) ==
    IF st.err # "ok" THEN [st EXCEPT !.rows = <<>>]
    ELSE IF k > Len(Suite) THEN st
    ELSE AttackLoop(attack_step(st, Suite[k],
                                attack_transform(Suite[k], ToRGB(encoded_image), damage),
                                expected_text, password, bits_per_channel, method),
                    k + 1, encoded_image, expected_text, password, bits_per_channel,
                    method, damage)

\* result: err, what the call raised; rows, what it returned; transformed, the
\* images decoding was tried on
run_attack_suite(encoded_image, expected_text, password, bits_per_channel, method, damage) ==
    AttackLoop([err |-> "ok", rows |-> <<>>, transformed |-> <<>>], 1,
               encoded_image, expected_text, password, bits_per_channel, method, damage)

(***************************************************************************)
(* The attack suite run on an opened image, clean or after an embed.       *)
(***************************************************************************)
\* no room for a header, room for a few bytes, the smallest image of the
\* round-trip contract
AnalysisSizes == {<<1, 1>>, <<4, 3>>, <<MinSide, MinSide>>}

AnalysisImages ==
    {NewImage(size, fill) : size \in AnalysisSizes, fill \in {"black", "gradient", "gray"}}

\* the damage of the four lossy attacks at one call
Damages ==
    {[a \in {"jpeg_q35", "resize_70", "noise_12", "blur_1"} |-> d] : d \in Distortions}
    \cup {[jpeg_q35 |-> "flip", resize_70 |-> "flat", noise_12 |-> "none", blur_1 |-> "flat"]}

\* supported bit depths
SupportedBits == {1, 2, 3}

\* the messages embedded before an analysis: empty, short, and as long as fits
AnalysisMessages(size, bits_per_channel) ==
    {<<>>, <<1055>>, Filler(max_message_bytes(size, bits_per_channel).value)}

\* the arguments the suite is run with after an embed: those of the embed,
\* and those with one of them changed
SuiteArgs ==
    IF encoded # NoImage
    THEN {embedded, [embedded EXCEPT !.password = <<107>>],
          [embedded EXCEPT !.message = <<65>>],
          [embedded EXCEPT !.bits = 0], [embedded EXCEPT !.method = "random"]}
    ELSE {[message |-> m, password |-> <<>>, bits |-> b, method |-> md] :
             m \in {<<>>, <<65>>}, b \in {0, 1, 2}, md \in {"sequential", "random"}}

AttackInit ==
    /\ image \in AnalysisImages
    /\ encoded = NoImage
    /\ embedded = NoArgs
    /\ call = NoCall

\* rows = run_attack_suite(image, expected, password, bits, method); a.message
\* is the expected text
CallRunAttackSuite(a, damage) ==
    /\ call.op = "none" \/ (call.op = "encode" /\ call.err = "ok")
    /\ call' = [op |-> "attack_suite", args |-> a, damage |-> damage]
                 @@ run_attack_suite(IF encoded # NoImage THEN encoded ELSE image,
                                     a.message, a.password, a.bits, a.method, damage)
    /\ UNCHANGED <<image, encoded, embedded>>

AttackNext ==
    \/ \E bits \in SupportedBits, method \in SUPPORTED_METHODS, password \in Passwords :
          \E message \in AnalysisMessages(image.size, bits) :
             CallEncodeText(message, password, bits, method)
    \/ \E a \in SuiteArgs, damage \in Damages : CallRunAttackSuite(a, damage)

AttackSpec == AttackInit /\ [][AttackNext]_vars

\* C16: run_attack_suite returns five rows, one per attack, in the order
\* baseline, jpeg_q35, resize_70, noise_12, blur_1, whatever the image, the
\* password, bits and method are; a decode failure on a transform's result is
\* recorded in its row (success = false, error = the failure) and is not
\* raised, and the attacks after it still run; a row has success = true only
\* if decoding raised nothing and the decoded text is expectedText.
AttackRowsContract ==
    (call.op = "attack_suite") =>
        /\ call.err = "ok"
        /\ Len(call.rows) = 5
        /\ [k \in 1..5 |-> call.rows[k].id]
              = <<"baseline", "jpeg_q35", "resize_70", "noise_12", "blur_1">>
        /\ Len(call.transformed) = 5
        /\ \A k \in 1..5 :
              LET d == decode_text_from_image(call.transformed[k], call.args.password,
                                              call.args.bits, call.args.method)
                  row == call.rows[k]
              IN /\ (d.err # "ok") => (~row.success /\ row.error = d.err)
                 /\ (d.err = "ok") => row.error = "none"
                 /\ row.success => (d.err = "ok" /\ d.text = call.args.message)
                 /\ (d.err = "ok" /\ d.text = call.args.message) => row.success
                 /\ call.transformed[k].size = Target.size

\* the recompressed image no longer decodes, the noisy one still does
AttackRowsWitness ==
    /\ call.op = "attack_suite"
    /\ encoded # NoImage
    /\ call.args = embedded
    /\ call.args.message = <<1055>>
    /\ call.rows[2].error = "BadLength"
    /\ ~call.rows[2].success
    /\ ~call.rows[3].success
    /\ call.rows[3].error = "none"
    /\ call.rows[4].success

\* C17: when the image given to run_attack_suite was produced by embedding
\* expectedText with the same password, bits and method, the row with id
\* "baseline" has success = true and no error.
BaselineSucceeds ==
    (call.op = "attack_suite" /\ encoded # NoImage /\ call.args = embedded) =>
        \E k \in 1..Len(call.rows) :
            /\ call.rows[k].id = "baseline"
            /\ call.rows[k].success
            /\ call.rows[k].error = "none"
            /\ \A j \in 1..Len(call.rows) : call.rows[j].id = "baseline" => j = k

\* the baseline is the only row that succeeds
BaselineWitness ==
    /\ call.op = "attack_suite"
    /\ encoded # NoImage
    /\ call.args = embedded
    /\ embedded.message # <<>>
    /\ embedded.password # <<>>
    /\ call.rows[1].success
    /\ \A k \in 2..5 : ~call.rows[k].success

(***************************************************************************)
(* core/analysis.py: the mode benchmark.  The quality metrics are computed *)
(* by a library: at every call they either give values or raise.          *)
(***************************************************************************)
\* None where a float is expected
NoRatio == [num |-> 0, den |-> 0]

\* a message of exactly the capacity refused as well
does_not_fit_ge(payload_bytes, capacity) == payload_bytes >= capacity

\* if payload_bytes > capacity
does_not_fit(payload_bytes, capacity) == payload_bytes > capacity

\* float(payload_bytes) / float(capacity) if capacity else None
usage_of(payload_bytes, capacity) ==
    IF capacity # 0 THEN Ratio(payload_bytes, capacity) ELSE NoRatio

\* a row; embeds and extracts count the codec calls made for it
BenchRow(method, bits, fit, decode_ok, quality, capacity, usage_ratio, error, embeds, extracts) ==
    [method |-> method, bits |-> bits, fit |-> fit, decode_ok |-> decode_ok,
     psnr_db |-> quality, mse |-> quality, ssim |-> quality, capacity |-> capacity,
     usage_ratio |-> usage_ratio, error |-> error, embeds |-> embeds, extracts |-> extracts]

\* lines 88-121, a combination that fits: the row, enc being what the embed
\* gave and dec what the extract gave on its image
fitting_row(enc, dec, message_text, method, bits, capacity, usage, metrics) ==
    IF enc.err # "ok"
    THEN BenchRow(method, bits, TRUE, FALSE, "none", capacity, usage, enc.err, 1, 0)
    ELSE IF dec.err # "ok"
    THEN BenchRow(method, bits, TRUE, FALSE, "none", capacity, usage, dec.err, 1, 1)
    ELSE IF metrics # "ok"
    THEN BenchRow(method, bits, TRUE, FALSE, "none", capacity, usage, metrics, 1, 1)
    ELSE BenchRow(method, bits, TRUE, dec.text = message_text, "value", capacity, usage,
                  "none", 1, 1)

\* lines 91-92: decoded = decode_text_from_image(encoded, ...)
fitting_cell(enc, message_text, password, method, bits, capacity, usage, metrics) ==
    fitting_row(enc, decode_text_from_image(enc.ret, password, bits, method),
                message_text, method, bits, capacity, usage, metrics)

\* lines 72-121, one combination of capacity cap: raised, what leaves the
\* loop body ("ok": nothing); rows, the row appended
capacity_cell(cap, img, message_text, password, method, bits, payload_bytes, metrics) ==
    IF cap.err # "ok" THEN [raised |-> cap.err, rows |-> <<>>]
    ELSE IF does_not_fit(payload_bytes, cap.value)
    THEN [raised |-> "ok",
          rows |-> <<BenchRow(method, bits, FALSE, FALSE, "none", cap.value, NoRatio,
                              "DoesNotFit", 0, 0)>>]
    ELSE [raised |-> "ok",
          rows |-> <<fitting_cell(encode_text_into_image(img, message_text, password,
                                                         bits, method),
                                  message_text, password, method, bits, cap.value,
                                  usage_of(payload_bytes, cap.value), metrics)>>]

\* lines 71-121, one combination
benchmark_cell(img, message_text, password, method, bits, payload_bytes, metrics) ==
    capacity_cell(max_message_bytes(img.size, bits), img, message_text, password,
                  method, bits, payload_bytes, metrics)

\* rows.append(...): the state of the loops after the combination r
bench_append(st, r) == [err |-> r.raised, rows |-> st.rows \o r.rows]

\* for bits in bits_options: ..., from entry j on; st = [err, rows]
RECURSIVE BenchBitsLoop(_, _, _, _, _, _, _, _, _)
BenchBitsLoop(st, j, img, message_text, password, method, bits_options, payload_bytes, metrics) ==
    IF j > Len(bits_options) \/ st.err # "ok" THEN st
    ELSE BenchBitsLoop(bench_append(st, benchmark_cell(img, message_text, password,
                                                       method, bits_options[j],
                                                       payload_bytes, metrics)),
                       j + 1, img, message_text, password, method, bits_options,
                       payload_bytes, metrics)

\* for method in methods: ..., from entry i on
RECURSIVE BenchMethodsLoop(_, _, _, _, _, _, _, _, _)
BenchMethodsLoop(st, i, img, message_text, password, methods, bits_options, payload_bytes, metrics) ==
    IF st.err # "ok" THEN [st EXCEPT !.rows = <<>>]
    ELSE IF i > Len(methods) THEN st
    ELSE BenchMethodsLoop(BenchBitsLoop(st, 1, img, message_text, password, methods[i],
                                        bits_options, payload_bytes, metrics),
                          i + 1, img, message_text, password, methods, bits_options,
                          payload_bytes, metrics)

\* result: err, what the call raised; rows, what it returned
run_mode_benchmark(original_image, message_text, password, bits_options, methods, metrics) ==
    BenchMethodsLoop([err |-> "ok", rows |-> <<>>], 1, ToRGB(original_image),
                     message_text, password, methods, bits_options,
                     Len(Utf8Encode(message_text)), metrics)

(***************************************************************************)
(* The benchmark run on an opened image.                                   *)
(***************************************************************************)
\* the default, the unit test's, one entry, none, one repeated, and lists
\* with an unsupported bit depth first and last
BitsOptionLists == {<<1, 2, 3>>, <<1, 2>>, <<3>>, <<>>, <<2, 2>>, <<0, 1>>, <<1, 4>>}

\* the default, one entry, none, and a list with an unknown method
MethodLists ==
    {<<"sequential", "interleaved">>, <<"interleaved">>, <<>>, <<"random", "sequential">>}

\* empty, short, and for every bit depth one of exactly the capacity and one
\* a byte over
BenchMessages(size) ==
    {<<>>, <<1055>>}
    \cup {Filler(max_message_bytes(size, b).value) : b \in SupportedBits}
    \cup {Filler(max_message_bytes(size, b).value + 1) : b \in SupportedBits}

\* whether psnr, mse and ssim return or raise
MetricsOutcomes == {"ok", "MetricsError"}

BenchmarkInit ==
    /\ image \in AnalysisImages
    /\ encoded = NoImage
    /\ embedded = NoArgs
    /\ call = NoCall

CallRunModeBenchmark(message, password, bits_options, methods, metrics) ==
    /\ call.op = "none"
    /\ call' = [op |-> "benchmark",
                 args |-> [NoArgs EXCEPT !.message = message, !.password = password],
                 bits_options |-> bits_options, methods |-> methods, metrics |-> metrics]
                 @@ run_mode_benchmark(image, message, password, bits_options, methods,
                                       metrics)
    /\ UNCHANGED <<image, encoded, embedded>>

BenchmarkNext ==
    \E password \in Passwords, bits_options \in BitsOptionLists, methods \in MethodLists,
       metrics \in MetricsOutcomes :
        \E message \in BenchMessages(image.size) :
            CallRunModeBenchmark(message, password, bits_options, methods, metrics)

BenchmarkSpec == BenchmarkInit /\ [][BenchmarkNext]_vars

\* C18: run_mode_benchmark returns len(methods) * len(bitsOptions) rows, one
\* per combination, each tagged with its (method, bits) and a fit flag, methods
\* outer and bit depths inner: row i belongs to methods[i div n] and
\* bitsOptions[i mod n], n = len(bitsOptions); for bits in {1,2} and both
\* methods on a fitting message it returns 4 rows.
BenchmarkCrossProduct ==
    (call.op = "benchmark") =>
        LET n == Len(call.bits_options)
            m == Len(call.methods)
        IN /\ Len(call.rows) = m * n
           /\ \A i \in 0..((m * n) - 1) :
                 /\ call.rows[i + 1].method = call.methods[(i \div n) + 1]
                 /\ call.rows[i + 1].bits = call.bits_options[(i % n) + 1]
                 /\ call.rows[i + 1].fit \in BOOLEAN
           /\ ( /\ call.bits_options = <<1, 2>>
                /\ call.methods = <<"sequential", "interleaved">>
                /\ ByteLen(call.args.message) <= capacityBytes(image.size, 1) )
              => Len(call.rows) = 4

\* whether a combination is one the codec refuses
Unsupported(method, bits) == bits \notin ValidBits \/ method \notin SUPPORTED_METHODS

\* C19: for any lists bitsOptions and methods, also with entries that are not
\* supported bit depths or methods, run_mode_benchmark never raises; a failing
\* combination yields a row carrying the error, every other combination
\* still yields its row.
BenchmarkNeverRaises ==
    (call.op = "benchmark") =>
        /\ call.err = "ok"
        /\ \A i \in 1..Len(call.methods), j \in 1..Len(call.bits_options) :
              \E k \in 1..Len(call.rows) :
                  /\ call.rows[k].method = call.methods[i]
                  /\ call.rows[k].bits = call.bits_options[j]
                  /\ Unsupported(call.methods[i], call.bits_options[j])
                        => call.rows[k].error # "none"

\* C20: a row has fit = false exactly when the UTF-8 length of the message
\* exceeds capacityBytes(w, h, bits); for such a row no embed and no extract
\* was attempted and it has decode_ok = false, no quality metrics, no usage
\* ratio and an error text; every other row has fit = true and the capacity
\* it was checked against.
FitDecidesRow ==
    (call.op = "benchmark") =>
        \A k \in 1..Len(call.rows) :
            LET row == call.rows[k]
                cap == capacityBytes(image.size, row.bits)
            IN /\ (~row.fit) <=> (ByteLen(call.args.message) > cap)
               /\ row.capacity = cap
               /\ (~row.fit) =>
                     /\ row.embeds = 0
                     /\ row.extracts = 0
                     /\ ~row.decode_ok
                     /\ row.psnr_db = "none"
                     /\ row.mse = "none"
                     /\ row.ssim = "none"
                     /\ row.usage_ratio = NoRatio
                     /\ row.error # "none"
               /\ row.fit => row.embeds = 1

\* the default sweep with a message that fits three bits but not one
FitDecidesWitness ==
    /\ call.op = "benchmark"
    /\ call.bits_options = <<1, 2, 3>>
    /\ call.methods = <<"sequential", "interleaved">>
    /\ Len(call.rows) = 6
    /\ ~call.rows[1].fit
    /\ call.rows[1].error = "DoesNotFit"
    /\ call.rows[3].fit
    /\ call.rows[3].decode_ok
    /\ call.rows[3].capacity = ByteLen(call.args.message)
    /\ ~call.rows[4].fit
    /\ call.rows[6].fit

(***************************************************************************)
(* Concurrent calls of the core: workers that share one input image.  A    *)
(* step of a call is one library call that reads a whole image (convert,   *)
(* copy, np.array) or one pass of a pixel loop (stego.py:78-88, 164-166),  *)
(* which reads one pixel of the call's input.  The image objects live in   *)
(* one heap: object 1 is the shared input, object k + 1 the k-th object a  *)
(* call allocated.                                                         *)
(***************************************************************************)
Workers == {1, 2}

ConcurrentOps == {"embed", "extract", "chi_square", "attack_cell"}

\* a worker before its call: op, args, the call; pc, where it is; inRef and
\* outRef, the objects it reads and writes; pos, the pixels its loop has
\* passed; idx, the payload bits written; got, the bits read; err, text,
\* stats, what the call gave
IdleThread ==
    [op |-> "none", args |-> NoArgs, pc |-> "idle", inRef |-> 0, outRef |-> 0,
     pos |-> 0, idx |-> 0, got |-> <<>>, err |-> "ok", text |-> <<>>,
     stats |-> NeutralStats]

Heap == <<image>> \o encoded

\* pixels[x, y] of the pos-th pass of "for y in range(h): for x in range(w)"
LoopPixel(img, pos) == <<pos % img.size[1], pos \div img.size[1]>>

PixelCount(img) == img.size[1] * img.size[2]

\* if image.mode != "RGB": image = image.convert("RGB")
ConvertIfNeeded(heap, ref) ==
    IF heap[ref].mode # "RGB" THEN ImageConvert(heap, ref) ELSE ImageAlias(heap, ref)

\* img.convert("RGB"): a new object whatever the mode
ConvertAlways(heap, ref) ==
    IF heap[ref].mode # "RGB" THEN ImageConvert(heap, ref) ELSE ImageCopy(heap, ref)

\* the call ends
Finish(th, e) == [th EXCEPT !.pc = "done", !.err = e]

\* encode_text_into_image up to the loops, cv being the image after line 61
embed_checked(cv, th) ==
    IF exceeds_capacity(Len(prepare_payload(th.args.message, th.args.password)) * 8,
                        total_bits(cv.heap[cv.ref], th.args.bits))
    THEN [heap |-> cv.heap, th |-> Finish(th, "TooLarge")]
    ELSE [heap |-> ImageCopy(cv.heap, cv.ref).heap,
          th |-> [th EXCEPT !.pc = "run", !.inRef = cv.ref,
                            !.outRef = ImageCopy(cv.heap, cv.ref).ref]]

embed_start(heap, th) ==
    IF validate_bits_and_method(th.args.bits, th.args.method) # "ok"
    THEN [heap |-> heap,
          th |-> Finish(th, validate_bits_and_method(th.args.bits, th.args.method))]
    ELSE embed_checked(ConvertIfNeeded(heap, 1), th)

\* lines 88-90 after the slots of a pixel were written
embed_written(heap, th, r) ==
    [heap |-> [heap EXCEPT ![th.outRef].px[LoopPixel(heap[th.inRef], th.pos)] = r.channels],
     th |-> [th EXCEPT !.idx = r.idx, !.pos = th.pos + 1,
                       !.pc = IF r.idx >= Len(prepare_payload(th.args.message,
                                                              th.args.password)) * 8
                                 \/ th.pos + 1 >= PixelCount(heap[th.inRef])
                              THEN "done" ELSE "run"]]

\* lines 78-90: one pass of the inner loop
embed_step(heap, th) ==
    embed_written(heap, th,
                  WriteSlots(heap[th.inRef].px[LoopPixel(heap[th.inRef], th.pos)],
                             get_carrier_order(th.args.bits, th.args.method).order, 1,
                             _bytes_to_bits(prepare_payload(th.args.message,
                                                            th.args.password)),
                             th.idx))

\* decode_text_from_image once the message bits are read
extract_decoded(th, d) == [Finish(th, d.err) EXCEPT !.text = d.text]

\* lines 104-116 and 130 with msg_len read: what the call does with the bits
\* it has, n being the pixels of its image
extract_body(th, n, size, msg_len) ==
    IF length_rejected(msg_len, max_message_bytes(size, th.args.bits).value)
    THEN Finish(th, "BadLength")
    ELSE IF Len(th.got) >= 32 + (msg_len * 8)
    THEN extract_decoded(th, decode_payload(to_bytes4(msg_len)
                                               \o _bits_to_bytes(NextN(th.got, 32, msg_len * 8)),
                                            th.args.password))
    ELSE IF th.pos >= n THEN Finish(th, "Incomplete")
    ELSE [th EXCEPT !.pc = "run"]

\* lines 101-103: the header still being read
extract_settle(th, img) ==
    IF Len(th.got) < 32
    THEN IF th.pos >= PixelCount(img) THEN Finish(th, "NoHeader")
         ELSE [th EXCEPT !.pc = "run"]
    ELSE extract_body(th, PixelCount(img), img.size, _bits_to_int(NextN(th.got, 0, 32)))

\* decode_text_from_image up to the first next(bits_iter), on the object ref
extract_from(cv, th) ==
    [heap |-> cv.heap,
     th |-> extract_settle([th EXCEPT !.inRef = cv.ref], cv.heap[cv.ref])]

extract_start(heap, th, ref) ==
    IF validate_bits_and_method(th.args.bits, th.args.method) # "ok"
    THEN [heap |-> heap,
          th |-> Finish(th, validate_bits_and_method(th.args.bits, th.args.method))]
    ELSE extract_from(ConvertIfNeeded(heap, ref), th)

\* lines 164-166: the generator reads one more pixel
extract_step(heap, th) ==
    [heap |-> heap,
     th |-> extract_settle(
                [th EXCEPT !.pos = th.pos + 1,
                           !.got = th.got
                               \o PixelBits(heap[th.inRef].px[LoopPixel(heap[th.inRef], th.pos)],
                                            get_carrier_order(th.args.bits,
                                                              th.args.method).order)],
                heap[th.inRef])]

\* analysis.py:38, the baseline attack: img.copy() of encoded_image.convert("RGB")
attack_copied(cv, th) ==
    extract_start(ImageCopy(cv.heap, cv.ref).heap, th, ImageCopy(cv.heap, cv.ref).ref)

attack_start(heap, th) == attack_copied(ConvertAlways(heap, 1), th)

\* risk.py:14: np.array(img.convert("RGB"))
chi_converted(cv, th) ==
    [heap |-> cv.heap, th |-> [th EXCEPT !.pc = "run", !.inRef = cv.ref]]

chi_start(heap, th) == chi_converted(ConvertAlways(heap, 1), th)

\* risk.py:15-29: the counts of the array
chi_step(heap, th) ==
    [heap |-> heap,
     th |-> [Finish(th, "ok") EXCEPT !.stats = chi_square_lsb_test(heap[th.inRef])]]

\* the image carrying "A" at 3 bits, sequential
StegoImage ==
    encode_text_into_image(NewImage(<<3, 2>>, "gradient"), <<65>>, <<>>, 3, "sequential").ret

\* a carrier of a message, a greyscale image, an image with room for a header only
ConcurrentImages == {StegoImage, NewImage(<<3, 2>>, "gray"), NewImage(<<2, 2>>, "black")}

\* the arguments of a call: an embed of the empty text or of "B"; an
\* extraction; an attack cell expecting "A"
ConcurrentArgs(op) ==
    IF op = "chi_square" THEN {NoArgs}
    ELSE {[message |-> m, password |-> <<>>, bits |-> b, method |-> md] :
             m \in (CASE op = "embed" -> {<<>>, <<66>>}
                      [] op = "extract" -> {<<>>}
                      [] op = "attack_cell" -> {<<65>>}),
             b \in {2, 3}, md \in SUPPORTED_METHODS}

ConcurrentInit ==
    /\ image \in ConcurrentImages
    /\ encoded = <<>>
    /\ embedded = NoArgs
    /\ call = [op |-> "concurrent", threads |-> [t \in Workers |-> IdleThread]]

\* what a step of worker t leaves behind
Commit(t, r) ==
    /\ image' = r.heap[1]
    /\ encoded' = SubSeq(r.heap, 2, Len(r.heap))
    /\ call' = [call EXCEPT !.threads[t] = r.th]
    /\ UNCHANGED embedded

\* worker t enters its call
ThreadStart(t, op, a) ==
    /\ call.threads[t].pc = "idle"
    /\ Commit(t, CASE op = "embed" ->
                        embed_start(Heap, [IdleThread EXCEPT !.op = op, !.args = a])
                   [] op = "extract" ->
                        extract_start(Heap, [IdleThread EXCEPT !.op = op, !.args = a], 1)
                   [] op = "attack_cell" ->
                        attack_start(Heap, [IdleThread EXCEPT !.op = op, !.args = a])
                   [] op = "chi_square" ->
                        chi_start(Heap, [IdleThread EXCEPT !.op = op, !.args = a]))

\* worker t takes the next step of its call
ThreadStep(t) ==
    /\ call.threads[t].pc = "run"
    /\ Commit(t, CASE call.threads[t].op = "embed" -> embed_step(Heap, call.threads[t])
                   [] call.threads[t].op \in {"extract", "attack_cell"} ->
                        extract_step(Heap, call.threads[t])
                   [] call.threads[t].op = "chi_square" -> chi_step(Heap, call.threads[t]))

ConcurrentNext ==
    \/ \E t \in Workers, op \in ConcurrentOps : \E a \in ConcurrentArgs(op) :
          ThreadStart(t, op, a)
    \/ \E t \in Workers : ThreadStep(t)

ConcurrentSpec == ConcurrentInit /\ [][ConcurrentNext]_vars

\* what a finished call gave its caller
Outcome(th, heap) ==
    CASE th.op = "embed" ->
            [err |-> th.err, ret |-> IF th.err = "ok" THEN heap[th.outRef] ELSE NoImage]
      [] th.op = "extract" -> [err |-> th.err, text |-> th.text]
      [] th.op = "attack_cell" ->
            [success |-> th.err = "ok" /\ th.text = th.args.message,
             error |-> IF th.err = "ok" THEN "none" ELSE th.err,
             extracted |-> th.text]
      [] th.op = "chi_square" -> th.stats

\* what the same call gives when nothing else runs
Alone(op, a, img) ==
    CASE op = "embed" ->
            LET r == encode_text_into_image(img, a.message, a.password, a.bits, a.method)
            IN [err |-> r.err, ret |-> r.ret]
      [] op = "extract" ->
            LET r == decode_text_from_image(img, a.password, a.bits, a.method)
            IN [err |-> r.err, text |-> r.text]
      [] op = "attack_cell" ->
            LET row == attack_row("baseline",
                                  decode_text_from_image(
                                      attack_transform("baseline", ToRGB(img), <<>>),
                                      a.password, a.bits, a.method),
                                  a.message).row
            IN [success |-> row.success, error |-> row.error, extracted |-> row.extracted]
      [] op = "chi_square" -> chi_square_lsb_test(img)

\* C21: in every interleaving of concurrent embed, extract, chi-square and
\* attack-cell calls on the same shared image, no step changes the shared
\* image or an object another call allocated, and every call that ends has
\* the result it has when run alone.
ConcurrentSafe ==
    [][ /\ image' = image
        /\ Len(encoded') >= Len(encoded)
        /\ \A k \in 1..Len(encoded) :
              encoded'[k] # encoded[k] =>
                 \E t \in Workers : /\ call'.threads[t] # call.threads[t]
                                    /\ call.threads[t].outRef = k + 1
                                    /\ \A u \in Workers \ {t} :
                                          k + 1 \notin {call.threads[u].inRef,
                                                        call.threads[u].outRef}
        /\ \A t \in Workers :
              call'.threads[t].pc = "done" =>
                 Outcome(call'.threads[t], <<image'>> \o encoded')
                    = Alone(call'.threads[t].op, call'.threads[t].args, image) ]_vars

\* an extraction has returned the carried text while an embed into the same
\* image is between two pixels
ConcurrentWitness ==
    /\ call.op = "concurrent"
    /\ image = StegoImage
    /\ \E t, u \in Workers :
          /\ call.threads[t].op = "embed"
          /\ call.threads[t].pc = "run"
          /\ call.threads[t].pos >= 1
          /\ call.threads[t].args.message = <<66>>
          /\ call.threads[u].op = "extract"
          /\ call.threads[u].pc = "done"
          /\ call.threads[u].err = "ok"
          /\ call.threads[u].text = <<65>>

(***************************************************************************)
(* core/proof_pack.py: the archive of an export.  Names and keys are       *)
(* strings of code points; a dict is the sequence of its <<key, value>>    *)
(* items in insertion order; the encoders of the libraries (JSON text,     *)
(* PNG, deflate) are functions of what they encode, kept as tagged values. *)
(***************************************************************************)
\* "proof_pack/report.json"
ReportJsonArc ==
    <<112, 114, 111, 111, 102, 95, 112, 97, 99, 107, 47, 114, 101, 112, 111,
    114, 116, 46, 106, 115, 111, 110>>

\* "proof_pack/report.txt"
ReportTxtArc ==
    <<112, 114, 111, 111, 102, 95, 112, 97, 99, 107, 47, 114, 101, 112, 111,
    114, 116, 46, 116, 120, 116>>

\* "proof_pack/before.png"
BeforeArc ==
    <<112, 114, 111, 111, 102, 95, 112, 97, 99, 107, 47, 98, 101, 102, 111,
    114, 101, 46, 112, 110, 103>>

\* "proof_pack/after.png"
AfterArc ==
    <<112, 114, 111, 111, 102, 95, 112, 97, 99, 107, 47, 97, 102, 116, 101,
    114, 46, 112, 110, 103>>

\* "proof_pack/heatmap.png"
HeatmapArc ==
    <<112, 114, 111, 111, 102, 95, 112, 97, 99, 107, 47, 104, 101, 97, 116,
    109, 97, 112, 46, 112, 110, 103>>

\* "proof_pack/attacks.csv"
AttacksArc ==
    <<112, 114, 111, 111, 102, 95, 112, 97, 99, 107, 47, 97, 116, 116, 97, 99,
    107, 115, 46, 99, 115, 118>>

\* "proof_pack/hotspot.png"
HotspotArc ==
    <<112, 114, 111, 111, 102, 95, 112, 97, 99, 107, 47, 104, 111, 116, 115,
    112, 111, 116, 46, 112, 110, 103>>

\* "proof_pack/inspector.png"
InspectorArc ==
    <<112, 114, 111, 111, 102, 95, 112, 97, 99, 107, 47, 105, 110, 115, 112,
    101, 99, 116, 111, 114, 46, 112, 110, 103>>

\* "extra/zoom.png"
ZoomArc ==
    <<101, 120, 116, 114, 97, 47, 122, 111, 111, 109, 46, 112, 110, 103>>

\* "extra/hotspot.png"
OtherHotspotArc ==
    <<101, 120, 116, 114, 97, 47, 104, 111, 116, 115, 112, 111, 116, 46, 112,
    110, 103>>

\* "before"
BeforeKey ==
    <<98, 101, 102, 111, 114, 101>>

\* "after"
AfterKey ==
    <<97, 102, 116, 101, 114>>

\* "heatmap"
HeatmapKey ==
    <<104, 101, 97, 116, 109, 97, 112>>

\* "attacks_csv"
AttacksCsvKey ==
    <<97, 116, 116, 97, 99, 107, 115, 95, 99, 115, 118>>

\* "hotspot"
HotspotKey ==
    <<104, 111, 116, 115, 112, 111, 116>>

\* "inspector"
InspectorKey ==
    <<105, 110, 115, 112, 101, 99, 116, 111, 114>>

\* "attack_id,attack_name,success,error,preview_text"
CsvHeader ==
    <<97, 116, 116, 97, 99, 107, 95, 105, 100, 44, 97, 116, 116, 97, 99, 107,
    95, 110, 97, 109, 101, 44, 115, 117, 99, 99, 101, 115, 115, 44, 101, 114,
    114, 111, 114, 44, 112, 114, 101, 118, 105, 101, 119, 95, 116, 101, 120,
    116>>

FIXED_ZIP_DATETIME == <<2020, 1, 1, 0, 0, 0>>

\* a < b on str: by code points, a proper prefix first
StrLess(a, b) ==
    \E i \in 1..Len(b) :
        /\ \A j \in 1..(i - 1) : j <= Len(a) /\ a[j] = b[j]
        /\ i > Len(a) \/ a[i] < b[i]

\* key in d
DictHas(d, key) == \E i \in 1..Len(d) : d[i][1] = key

\* d.get(key, default)
DictGet(d, key, default) ==
    IF DictHas(d, key) THEN d[CHOOSE i \in 1..Len(d) : d[i][1] = key][2] ELSE default

\* d[key] = value: a known key keeps its place
DictSet(d, key, value) ==
    IF DictHas(d, key)
    THEN [i \in 1..Len(d) |-> IF d[i][1] = key THEN <<key, value>> ELSE d[i]]
    ELSE Append(d, <<key, value>>)

\* d.update(items), from item i on
RECURSIVE DictUpdate(_, _, _)
DictUpdate(d, items, i) ==
    IF i > Len(items) THEN d
    ELSE DictUpdate(DictSet(d, items[i][1], items[i][2]), items, i + 1)

\* the items of d in the order of their keys
RECURSIVE ByKey(_)
ByKey(d) ==
    IF Len(d) = 0 THEN <<>>
    ELSE LET first == CHOOSE i \in 1..Len(d) :
                          \A j \in 1..Len(d) : j = i \/ StrLess(d[i][1], d[j][1])
         IN <<d[first]>> \o ByKey([k \in 1..(Len(d) - 1) |->
                                      IF k < first THEN d[k] ELSE d[k + 1]])

\* the items as the mapping holds them
items_unsorted(d) == d

\* sorted(extra_png_artifacts.items())
sorted_items(d) == ByKey(d)

\* json.dumps(..., sort_keys=True) of a dict
sort_keys(d) == ByKey(d)

\* the last place of code point c in s, 0 when there is none
LastIndex(s, c) ==
    IF \E i \in 1..Len(s) : s[i] = c
    THEN CHOOSE i \in 1..Len(s) : s[i] = c /\ \A j \in (i + 1)..Len(s) : s[j] # c
    ELSE 0

\* Path(arc_name).name
BaseName(arc_name) == SubSeq(arc_name, LastIndex(arc_name, 47) + 1, Len(arc_name))

\* the name without its suffix (the suffix starts at the last dot that is
\* neither the first nor the last character)
StripSuffix(base) ==
    IF 1 < LastIndex(base, 46) /\ LastIndex(base, 46) < Len(base)
    THEN SubSeq(base, 1, LastIndex(base, 46) - 1)
    ELSE base

\* Path(arc_name).stem
Stem(arc_name) == StripSuffix(BaseName(arc_name))

\* the largest member of a set of numbers, 0 for the empty set
SetMax(S) == IF S = {} THEN 0 ELSE CHOOSE m \in S : \A x \in S : x <= m

\* np.abs(mod - orig).max(axis=2), both images as RGB arrays
delta_of(orig, mod) ==
    [p \in Coords(orig.size) |->
        SetMax({Abs(mod.px[p][c] - orig.px[p][c]) : c \in 1..Channels})]

compute_delta_map(original, modified) == delta_of(ToRGB(original), ToRGB(modified))

\* arr / max_val * 255.0 cut to uint8 (float32; equal to the exact quotient
\* cut, for every pair of bytes)
normalize_by(delta_map, max_val) ==
    IF max_val <= 0 THEN [p \in DOMAIN delta_map |-> 0]
    ELSE [p \in DOMAIN delta_map |-> (delta_map[p] * 255) \div max_val]

_normalize_uint8(delta_map) ==
    normalize_by(delta_map, SetMax({delta_map[p] : p \in DOMAIN delta_map}))

\* x held between lo and hi
Clip(x, lo, hi) == IF x < lo THEN lo ELSE IF x > hi THEN hi ELSE x

\* the values at which float32 leaves the blue channel just under a whole number
BlueRoundsDown == {100, 140, 160, 180}

\* the colour of one normalized value n: 255 * clip((n/255 - 0.28) * 2.3),
\* 255 * clip(1 - |n/255 - 0.55| * 2), 255 * clip(1 - n/255 * 1.15, 0.12, 1)
_fallback_heatmap(n) ==
    <<Clip(((n * 100) - 7140) * 23, 0, 255000) \div 1000,
      Clip(25500 - (Abs((n * 100) - 14025) * 2), 0, 25500) \div 100,
      (Clip(25500 - (n * 115), 3060, 25500) \div 100)
          - (IF n \in BlueRoundsDown THEN 1 ELSE 0)>>

\* cv2.applyColorMap(normalized, COLORMAP_TURBO): the library's table
apply_turbo(n) == [turbo |-> n]

colour_all(normalized, cv2) ==
    [p \in DOMAIN normalized |->
        IF cv2 THEN apply_turbo(normalized[p]) ELSE _fallback_heatmap(normalized[p])]

\* cv2: whether the module could import cv2
compute_heatmap(delta_map, cv2) == colour_all(_normalize_uint8(delta_map), cv2)

compute_change_heatmap(original, modified, cv2) ==
    [mode |-> "RGB", size |-> original.size,
     px |-> compute_heatmap(compute_delta_map(original, modified), cv2)]

\* image.convert("RGB").save(buf, format="PNG"); buf.getvalue()
_pil_to_png_bytes(img) == [png |-> ToRGB(img)]

\* value.replace('"', '""') between quotes when value holds , " LF or CR
_csv_escape(value) ==
    IF \E i \in 1..Len(value) : value[i] \in {44, 34, 10, 13}
    THEN <<34>> \o Flatten([i \in 1..Len(value) |->
                              IF value[i] = 34 THEN <<34, 34>> ELSE <<value[i]>>])
              \o <<34>>
    ELSE value

\* one line of the table
csv_line(row) ==
    _csv_escape(row.id) \o <<44>> \o _csv_escape(row.name) \o <<44>>
        \o (IF row.success THEN <<49>> ELSE <<48>>) \o <<44>>
        \o _csv_escape(row.error) \o <<44>> \o _csv_escape(row.preview_text)

\* ("\n".join(lines) + "\n").encode("utf-8")
_attacks_to_csv_bytes(attacks) ==
    Utf8Encode(Flatten([i \in 1..(Len(attacks) + 1) |->
                           (IF i = 1 THEN CsvHeader ELSE csv_line(attacks[i - 1]))
                               \o <<10>>]))

\* json.dumps(report, ensure_ascii=False, indent=2, sort_keys=True).encode("utf-8")
json_dumps(report) ==
    [json |-> [artifacts |-> report.artifacts, meta |-> report.meta,
               visual_artifacts |-> sort_keys(report.visual_artifacts)]]

\* render_report_text(report).encode("utf-8"): the dict as it prints, the
\* two screenshots, the archive path (report.py:185-193)
render_report_text(report) ==
    [txt |-> [meta |-> report.meta,
              visual_artifacts |-> report.visual_artifacts,
              hotspot |-> DictGet(report.visual_artifacts, HotspotKey, <<45>>),
              inspector |-> DictGet(report.visual_artifacts, InspectorKey, <<45>>),
              proof_pack_path |-> report.artifacts.proof_pack_path]]

\* the entry zf.writestr(info, payload) adds
_writestr_deterministic(arc_name, payload) ==
    [filename |-> arc_name, date_time |-> FIXED_ZIP_DATETIME,
     compress_type |-> "ZIP_DEFLATED", create_system |-> 3,
     external_attr |-> 420 * Pow2(16), payload |-> payload]

\* lines 29-43: the report after the export updated it, extras being the
\* sorted items of extra_png_artifacts
updated_report(report, zip_path, extras) ==
    [report EXCEPT
        !.artifacts.proof_pack_path = zip_path,
        !.visual_artifacts =
            DictUpdate(DictUpdate(report.visual_artifacts,
                                  <<<<BeforeKey, BeforeArc>>, <<AfterKey, AfterArc>>,
                                    <<HeatmapKey, HeatmapArc>>,
                                    <<AttacksCsvKey, AttacksArc>>>>, 1),
                       [i \in 1..Len(extras) |-> <<Stem(extras[i][1]), extras[i][1]>>], 1)]

\* lines 45-64: files
proof_pack_files(report, source_image, encoded_image, attacks, extras, cv2) ==
    << <<ReportJsonArc, json_dumps(report)>>,
       <<ReportTxtArc, render_report_text(report)>>,
       <<BeforeArc, _pil_to_png_bytes(source_image)>>,
       <<AfterArc, _pil_to_png_bytes(encoded_image)>>,
       <<HeatmapArc, _pil_to_png_bytes(compute_change_heatmap(source_image,
                                                              encoded_image, cv2))>>,
       <<AttacksArc, _attacks_to_csv_bytes(attacks)>> >> \o extras

\* lines 66-68: the archive written
write_archive(files) ==
    [i \in 1..Len(files) |-> _writestr_deterministic(files[i][1], files[i][2])]

\* the export with the report already updated
export_updated(report, source_image, encoded_image, attacks, extras, cv2) ==
    [report |-> report,
     archive |-> write_archive(proof_pack_files(report, source_image, encoded_image,
                                                attacks, extras, cv2))]

\* result: report, the caller's report object after the call; archive, the
\* entries of the file at zip_path
export_proof_pack(zip_path, report, source_image, encoded_image, attacks, extra_png_artifacts, cv2) ==
    export_updated(updated_report(report, zip_path, sorted_items(extra_png_artifacts)),
                   source_image, encoded_image, attacks,
                   sorted_items(extra_png_artifacts), cv2)

(***************************************************************************)
(* An export, and the same or another export after it, as the unit test    *)
(* makes them.                                                             *)
(***************************************************************************)
ExtraNames == {HotspotArc, InspectorArc, ZoomArc, OtherHotspotArc}

\* the bytes given for a name
ExtraPayload(arc_name) == <<Len(arc_name), 7>>

\* no extra artifact, one, or two in either order of insertion
ExtraMappings ==
    {<<>>}
    \cup {<< <<a, ExtraPayload(a)>> >> : a \in ExtraNames}
    \cup {m \in {<< <<a, ExtraPayload(a)>>, <<b, ExtraPayload(b)>> >> :
                       a \in ExtraNames, b \in ExtraNames} : m[1][1] # m[2][1]}

\* "baseline"
BaselineId == <<98, 97, 115, 101, 108, 105, 110, 101>>

\* attacks=[] as in the test, and a row whose preview needs quoting
AttackTables ==
    {<<>>,
     <<[id |-> BaselineId, name |-> <<66, 97, 115, 101>>, success |-> TRUE,
        error |-> <<>>, preview_text |-> <<72, 105, 44, 32, 34, 65, 34>>]>>}

ZipPaths == {"proof_pack.zip", "other.zip"}

\* the report build_stegano_report made, and one that names a screenshot already
Reports ==
    {[artifacts |-> [proof_pack_path |-> "None"], meta |-> 1, visual_artifacts |-> va] :
        va \in {<<>>, << <<InspectorKey, <<111, 108, 100>>>> >>}}

NoExport == [zip_path |-> "", attacks |-> <<>>, extras |-> <<>>]

ProofPackInit ==
    /\ image \in {NewImage(<<3, 2>>, "gradient"), NewImage(<<3, 2>>, "gray")}
    /\ encoded = encode_text_into_image(image, <<65>>, <<>>, 3, "sequential").ret
    /\ embedded = [message |-> <<65>>, password |-> <<>>, bits |-> 3,
                   method |-> "sequential"]
    /\ \E cv2 \in BOOLEAN, report \in Reports :
          call = [op |-> "none", cv2 |-> cv2, repeated |-> FALSE, args |-> NoExport,
                  before |-> [args |-> NoExport, archive |-> <<>>],
                  report |-> report, archive |-> <<>>]

\* export_proof_pack(zip_path, report, source, encoded, attacks=...,
\* extra_png_artifacts=...), at most twice
CallExportProofPack(zip_path, attacks, extras) ==
    /\ ~call.repeated
    /\ call' = [op |-> "export", cv2 |-> call.cv2, repeated |-> call.op = "export",
                args |-> [zip_path |-> zip_path, attacks |-> attacks, extras |-> extras],
                before |-> [args |-> call.args, archive |-> call.archive]]
                @@ export_proof_pack(zip_path, call.report, image, encoded, attacks,
                                     extras, call.cv2)
    /\ UNCHANGED <<image, encoded, embedded>>

ProofPackNext ==
    \E zip_path \in ZipPaths, attacks \in AttackTables, extras \in ExtraMappings :
        CallExportProofPack(zip_path, attacks, extras)

ProofPackSpec == ProofPackInit /\ [][ProofPackNext]_vars

\* the names of a sequence of entries or items
NamesOf(entries, field) == [i \in 1..Len(entries) |-> entries[i][field]]

\* whether two mappings hold the same items
SameItems(a, b) == {a[i] : i \in 1..Len(a)} = {b[i] : i \in 1..Len(b)}

\* C22: the archive of an export holds report.json, report.txt, before.png,
\* after.png, heatmap.png, attacks.csv under proof_pack/ in that order, then
\* the extra artifacts in ascending order of their names, and nothing else;
\* every entry has the timestamp 2020-01-01 00:00:00 and the same
\* attributes; a second export with the same arguments, the report being
\* the object the first export updated, writes the same archive.
ProofPackDeterministic ==
    (call.op = "export") =>
        LET n == Len(call.args.extras)
        IN /\ Len(call.archive) = 6 + n
           /\ [i \in 1..6 |-> call.archive[i].filename]
                 = <<ReportJsonArc, ReportTxtArc, BeforeArc, AfterArc, HeatmapArc, AttacksArc>>
           /\ \A i \in 7..(6 + n) :
                 /\ \E k \in 1..n : /\ call.args.extras[k][1] = call.archive[i].filename
                                    /\ call.args.extras[k][2] = call.archive[i].payload
                 /\ \A j \in (i + 1)..(6 + n) :
                       StrLess(call.archive[i].filename, call.archive[j].filename)
           /\ \A i \in 1..(6 + n) :
                 /\ call.archive[i].date_time = <<2020, 1, 1, 0, 0, 0>>
                 /\ call.archive[i].compress_type = "ZIP_DEFLATED"
                 /\ call.archive[i].create_system = 3
                 /\ call.archive[i].external_attr = 27525120
           /\ ( /\ call.repeated
                /\ call.args.zip_path = call.before.args.zip_path
                /\ call.args.attacks = call.before.args.attacks
                /\ SameItems(call.args.extras, call.before.args.extras) )
              => call.archive = call.before.archive

\* the test's two exports, the extra artifacts given in descending order
ProofPackWitness ==
    /\ call.op = "export"
    /\ call.repeated
    /\ call.args = call.before.args
    /\ call.args.zip_path = "proof_pack.zip"
    /\ call.args.attacks = <<>>
    /\ NamesOf(call.args.extras, 1) = <<InspectorArc, HotspotArc>>
    /\ Len(call.archive) = 8
    /\ call.archive[7].filename = HotspotArc
    /\ call.archive[8].filename = InspectorArc
    /\ call.archive = call.before.archive

(***************************************************************************)
(* The placement of the payload bits, from the contract's arithmetic.      *)
(***************************************************************************)
\* bit k (from 0) of a byte string, the most-significant bit of a byte first
PayloadBit(payload, k) == BitOf(payload[(k \div 8) + 1], 7 - (k % 8))

\* the carrier bit number of bit position b of channel c of pixel p
CarrierIndex(size, bits, method, p, c, b) ==
    (((p[2] * size[1]) + p[1]) * 3 * bits)
        + (CHOOSE j \in 0..((3 * bits) - 1) : SlotOf(bits, method, j) = <<c, b>>)

\* C23: after an embed of a payload of n bytes that fits, payload bit k (bytes
\* in order, most-significant bit first), for every k in 0..8n-1, is the bit
\* of the output at pixel k div (3*bits) in row-major order, in the channel
\* and bit position of slot k mod (3*bits) of the carrier order; every other
\* bit of the output is the bit of the input: the slots after the payload in
\* the last pixel used, all later pixels, all bit positions >= bits; every
\* channel value is in 0..255 and at most 2^bits - 1 from the original.
BitPlacement ==
    (call.op = "encode" /\ call.err = "ok") =>
        LET bits == call.args.bits
            method == call.args.method
            used == 8 * Len(call.payload)
        IN /\ \A k \in 0..(used - 1) :
                 CarrierBit(call.ret, bits, method, k) = PayloadBit(call.payload, k)
           /\ \A p \in Coords(image.size), c \in 0..2 :
                 /\ \A b \in 0..7 :
                       (b >= bits \/ CarrierIndex(image.size, bits, method, p, c, b) >= used)
                          => BitOf(call.ret.px[p][c + 1], b)
                                = BitOf(ChannelValue(image, p, c), b)
                 /\ call.ret.px[p][c + 1] \in 0..255
                 /\ Abs(call.ret.px[p][c + 1] - ChannelValue(image, p, c)) <= Pow2(bits) - 1

\* a payload that ends inside a pixel whose remaining slots hold ones, with
\* pixels after it
BitPlacementWitness ==
    /\ call.op = "encode"
    /\ call.err = "ok"
    /\ call.args.bits = 3
    /\ call.args.method = "interleaved"
    /\ (8 * Len(call.payload)) % 9 # 0
    /\ 8 * Len(call.payload) < 9 * ((image.size[1] * image.size[2]) - 1)
    /\ call.ret.px # image.px
    /\ \E k \in (8 * Len(call.payload))..((9 * (((8 * Len(call.payload)) \div 9) + 1)) - 1) :
          CarrierBit(call.ret, 3, "interleaved", k) = 1

(***************************************************************************)
(* core/analysis.py: the preview of an extracted text.  str.isprintable    *)
(* and str.isalnum are given for the code points of PreviewAlphabet.       *)
(***************************************************************************)
\* "нечитаемый текст"
UnreadableMarker ==
    <<1085, 1077, 1095, 1080, 1090, 1072, 1077, 1084, 1099, 1081, 32, 1090,
    1077, 1082, 1089, 1090>>

\* the default of limit
PreviewLimit == 90

\* ch.isprintable(): not a control, format or separator character other
\* than the space
isprintable(ch) ==
    ~ \/ ch < 32
      \/ ch \in 127..160
      \/ ch = 173
      \/ ch \in 8192..8207
      \/ ch \in 8232..8239

\* ch.isalnum(): a digit or a letter (ASCII, Cyrillic)
isalnum(ch) ==
    \/ ch \in 48..57
    \/ ch \in 65..90
    \/ ch \in 97..122
    \/ ch \in 1040..1103

\* the threshold met counts as too few
too_few_letters_le(letters, n) == letters * 100 <= 35 * Max(1, n)

\* letters / max(1, len(cleaned)) < 0.35
too_few_letters(letters, n) == letters * 100 < 35 * Max(1, n)

\* ch.isprintable() and ch not in "\r\n\t"
KeptByFilter(ch) == isprintable(ch) /\ ch \notin {13, 10, 9}

NotReplacement(ch) == ch # Replacement

\* lines 155-161, cleaned being the text after lines 153-154
preview_of(cleaned) ==
    IF cleaned = <<>> THEN UnreadableMarker
    ELSE IF too_few_letters(Len(SelectSeq(cleaned, isalnum)), Len(cleaned))
    THEN UnreadableMarker
    ELSE SubSeq(cleaned, 1, IF Len(cleaned) < PreviewLimit THEN Len(cleaned)
                            ELSE PreviewLimit)

_safe_preview_text(text) ==
    IF text = <<>> THEN <<>>
    ELSE preview_of(SelectSeq(SelectSeq(text, KeptByFilter), NotReplacement))

(***************************************************************************)
(* Previews of given texts and of the text of an attack row.               *)
(***************************************************************************)
\* a letter, a Cyrillic letter, a digit, a space, punctuation, LF, TAB, a
\* control character, a no-break space, the replacement character
PreviewAlphabet == {65, 1055, 49, 32, 33, 10, 9, 7, 160, Replacement}

\* n times the character ch
Rep(ch, n) == [i \in 1..n |-> ch]

\* short texts; texts around the limit; texts at and under 35% of letters;
\* texts whose removed characters change the outcome
PreviewTexts ==
    {<<>>}
    \cup {<<a>> : a \in PreviewAlphabet}
    \cup {<<a, b>> : a \in PreviewAlphabet, b \in PreviewAlphabet}
    \cup {Rep(65, n) : n \in {89, 90, 91}}
    \cup {Rep(65, 7) \o Rep(33, 13), Rep(65, 6) \o Rep(33, 14),
          Rep(65, 35) \o Rep(33, 65), Rep(65, 34) \o Rep(33, 66),
          Rep(65, 7) \o Rep(10, 5) \o Rep(33, 13),
          Rep(Replacement, 3) \o Rep(65, 91) \o <<7>>,
          Rep(33, 60) \o Rep(65, 40)}

PreviewInit ==
    /\ image \in {StegoImage, NewImage(<<3, 2>>, "gradient"), NewImage(<<1, 1>>, "black")}
    /\ encoded = NoImage
    /\ embedded = NoArgs
    /\ call = NoCall

\* _safe_preview_text(text)
CallSafePreviewText(text) ==
    /\ call.op = "none"
    /\ call' = [op |-> "preview", err |-> "none", text |-> text,
                preview_text |-> _safe_preview_text(text)]
    /\ UNCHANGED <<image, encoded, embedded>>

\* the row of an attack with its preview
previewed_row(row) ==
    [op |-> "row_preview", err |-> row.error, text |-> row.extracted,
     preview_text |-> _safe_preview_text(row.extracted)]

\* analysis.py:42-53: the row of an attack on the opened image
CallAttackRowPreview(bits_per_channel, method) ==
    /\ call.op = "none"
    /\ call' = previewed_row(attack_row("baseline",
                                        decode_text_from_image(image, <<>>,
                                                               bits_per_channel, method),
                                        <<65>>).row)
    /\ UNCHANGED <<image, encoded, embedded>>

PreviewNext ==
    \/ \E text \in PreviewTexts : CallSafePreviewText(text)
    \/ \E bits_per_channel \in 0..3, method \in SUPPORTED_METHODS :
          CallAttackRowPreview(bits_per_channel, method)

PreviewSpec == PreviewInit /\ [][PreviewNext]_vars

\* a control character: U+0000..U+001F, U+007F..U+009F
IsControl(ch) == ch < 32 \/ ch \in 127..159

\* what the contract keeps of a text
Remaining(text) ==
    LET Keeps(ch) == isprintable(ch) /\ ch \notin {13, 10, 9, 65533}
    IN SelectSeq(text, Keeps)

\* C24: _safe_preview_text removes every non-printable character, CR, LF,
\* TAB and U+FFFD; it returns the 'unreadable' marker when nothing remains or
\* fewer than 35% of the remaining characters are alphanumeric, otherwise the
\* first 90 remaining characters; it returns the empty string for the empty
\* text, as in every row whose decode failed; the result is never longer
\* than 90 characters and holds no control or replacement character.
PreviewSanitised ==
    (call.op \in {"preview", "row_preview"}) =>
        LET rem == Remaining(call.text)
            letters == Cardinality({i \in 1..Len(rem) : isalnum(rem[i])})
        IN /\ (call.text = <<>>) => call.preview_text = <<>>
           /\ (call.text # <<>> /\ (rem = <<>> \/ 100 * letters < 35 * Len(rem)))
                 => call.preview_text = UnreadableMarker
           /\ (call.text # <<>> /\ rem # <<>> /\ 100 * letters >= 35 * Len(rem))
                 => /\ Len(call.preview_text) = (IF Len(rem) < 90 THEN Len(rem) ELSE 90)
                    /\ \A i \in 1..Len(call.preview_text) : call.preview_text[i] = rem[i]
           /\ Len(call.preview_text) <= 90
           /\ \A i \in 1..Len(call.preview_text) :
                 ~IsControl(call.preview_text[i]) /\ call.preview_text[i] # 65533
           /\ (call.op = "row_preview" /\ call.err # "none") => call.preview_text = <<>>

\* a text with exactly 35% of letters, longer than the limit, is cut to 90
PreviewWitness ==
    /\ call.op = "preview"
    /\ Len(call.text) = 100
    /\ Cardinality({i \in 1..Len(call.text) : call.text[i] = 65}) = 35
    /\ Len(call.preview_text) = 90
    /\ call.preview_text # UnreadableMarker

(***************************************************************************)
(* Embeds in a chain: every embed is applied to the image the embed before *)
(* it returned, with the same bits and method.                             *)
(***************************************************************************)
\* the embeds of a chain
MaxChain == 3

ChainImages == {NewImage(<<4, 3>>, "gradient"), NewImage(<<3, 3>>, "gray")}

\* empty, one byte, three bytes, and as long as fits
ChainMessages(size, bits_per_channel) ==
    {<<>>, <<65>>, <<1055, 65>>, Filler(max_message_bytes(size, bits_per_channel).value)}

ChainInit ==
    /\ image \in ChainImages
    /\ encoded = NoImage
    /\ embedded = NoArgs
    /\ call = [op |-> "none", n |-> 0, err |-> "ok", before |-> NoImage,
               repeat |-> FALSE, text |-> <<>>]

\* what an embed of the chain leaves, r being what the embed gave
chain_embedded(a, r) ==
    /\ call' = [op |-> "chain_embed",
                n |-> IF r.err = "ok" THEN call.n + 1 ELSE call.n,
                err |-> r.err, before |-> encoded,
                repeat |-> encoded # NoImage /\ a = embedded, text |-> <<>>]
    /\ encoded' = IF r.err = "ok" THEN r.ret ELSE encoded
    /\ embedded' = IF r.err = "ok" THEN a ELSE embedded
    /\ UNCHANGED image

\* encoded = encode_text_into_image(encoded or image, message, password, bits, method)
ChainEmbed(a) ==
    /\ call.n < MaxChain
    /\ call.op \in {"none", "chain_embed"}
    /\ encoded # NoImage => (a.bits = embedded.bits /\ a.method = embedded.method)
    /\ chain_embedded(a, encode_text_into_image(IF encoded # NoImage THEN encoded ELSE image,
                                                a.message, a.password, a.bits, a.method))

\* what the extraction leaves
chain_extracted(r) ==
    /\ call' = [call EXCEPT !.op = "chain_extract", !.err = r.err, !.text = r.text]
    /\ UNCHANGED <<image, encoded, embedded>>

\* decode_text_from_image(encoded, password, bits, method) with the last
\* embed's arguments
ChainExtract ==
    /\ call.op = "chain_embed"
    /\ encoded # NoImage
    /\ chain_extracted(decode_text_from_image(encoded, embedded.password, embedded.bits,
                                              embedded.method))

ChainNext ==
    \/ \E bits_per_channel \in SupportedBits, method \in SUPPORTED_METHODS,
          password \in Passwords :
          \E message \in ChainMessages(image.size, bits_per_channel) :
             ChainEmbed([message |-> message, password |-> password,
                         bits |-> bits_per_channel, method |-> method])
    \/ ChainExtract

ChainSpec == ChainInit /\ [][ChainNext]_vars

\* C25: after any sequence of successful embeds into the same carrier, each
\* applied to the output of the one before, all with the same bits and
\* method, extraction with that bits and method and the last embed's
\* password returns exactly the last embedded message, whatever the lengths
\* of the earlier messages; embedding the same payload a second time gives
\* the image the first embed gave.
LastWriteWins ==
    /\ (call.op = "chain_extract") => (call.err = "ok" /\ call.text = embedded.message)
    /\ (call.op = "chain_embed" /\ call.repeat /\ call.err = "ok") => encoded = call.before

\* a short message is read back after a longer one, under another password,
\* was embedded first
LastWriteWitness ==
    /\ call.op = "chain_extract"
    /\ call.n = 3
    /\ call.err = "ok"
    /\ call.text = <<65>>
    /\ embedded.password # <<>>
    /\ embedded.bits = 3
    /\ encoded # encode_text_into_image(image, <<65>>, embedded.password, 3,
                                        embedded.method).ret

\* C26: the incomplete-payload outcome is unreachable and the output of the
\* extraction is well framed: whenever the header was read and its length
\* passed the capacity check, the image holds at least 8 * L carrier bits
\* after the header, no extraction ends with the incomplete-message error
\* (neither in decode_payload_from_image nor in the decode_payload that
\* follows it), and the header of every returned buffer is the length of
\* its body.
ExtractionWellFramed ==
    (call.op = "decode") =>
        /\ call.err \notin {"Incomplete", "TooShort"}
        /\ (ValidArgs(call.args) /\ call.err \notin {"NoHeader", "BadLength"}) =>
              CarrierPositions(image.size, call.args.bits) >= 32 + 8 * call.msg_len
        /\ (call.err = "ok") =>
              /\ Len(call.payload) >= 4
              /\ from_bytes(SubSeq(call.payload, 1, 4)) = Len(call.payload) - 4
              /\ call.msg_len = Len(call.payload) - 4

\* a message of exactly the capacity is read back from an image whose
\* carrier bits are not a whole number of bytes: the body ends at the last
\* whole byte of the carrier, before its last bits
ExtractionFramedWitness ==
    /\ call.op = "decode"
    /\ encoded # NoImage
    /\ call.args.bits = embedded.bits
    /\ call.args.method = embedded.method
    /\ call.err = "ok"
    /\ call.msg_len > 0
    /\ call.msg_len = capacityBytes(image.size, call.args.bits)
    /\ CarrierPositions(image.size, call.args.bits) % 8 # 0

\* the other traversal method
OtherMethod(method) == IF method = "sequential" THEN "interleaved" ELSE "sequential"

\* C27: at bits = 1 the two methods are the same codec: the two carrier
\* orders are equal, an embed gives the same outcome and the same image
\* under either method, and a message embedded with one method is extracted
\* unchanged with the other; at bits 2 and 3 the two orders differ.
MethodsCoincideAtOneBit ==
    /\ (call.op = "order" /\ call.err = "ok") =>
          ((call.order = get_carrier_order(call.args.bits,
                                           OtherMethod(call.args.method)).order)
              <=> call.args.bits = 1)
    /\ (call.op = "encode" /\ call.args.bits = 1
           /\ call.args.method \in SUPPORTED_METHODS) =>
          LET other == encode_text_into_image(image, call.args.message,
                                              call.args.password, 1,
                                              OtherMethod(call.args.method))
          IN other.err = call.err /\ other.ret = call.ret
    /\ (call.op = "decode" /\ encoded # NoImage /\ embedded.bits = 1
           /\ call.args.bits = 1 /\ call.args.method \in SUPPORTED_METHODS
           /\ call.args.password = embedded.password) =>
          (call.err = "ok" /\ call.text = embedded.message)

\* a message that changes pixels, embedded interleaved at one bit, is read
\* back with the sequential method
MethodsCoincideWitness ==
    /\ call.op = "decode"
    /\ encoded # NoImage
    /\ encoded # image
    /\ embedded.bits = 1
    /\ embedded.method = "interleaved"
    /\ embedded.message # <<>>
    /\ call.args.bits = 1
    /\ call.args.method = "sequential"
    /\ call.args.password = embedded.password
    /\ call.text = embedded.message

\* LOW < MEDIUM < HIGH
LevelRank(level) == CASE level = "LOW" -> 0 [] level = "MEDIUM" -> 1 [] level = "HIGH" -> 2

\* a usage ratio as given, in units of 1/100000
UsageUnits(usage) == usage.num * (100000 \div usage.den)

\* C28: the risk level never decreases when the usage ratio grows: for the
\* same two records and every usage ratio at least as large as that of the
\* call, the level is at least the level of the call; a usage ratio below
\* 0.08 gives LOW whatever the records, one of at least 0.18 gives at least
\* MEDIUM, and HIGH is only given at 0.40 and above.
RiskMonotoneInUsage ==
    (call.op = "evaluate_risk") =>
        /\ \A u2 \in UsageArgs :
              UsageUnits(call.usage) <= UsageUnits(u2) =>
                 LevelRank(call.level)
                    <= LevelRank(evaluate_risk(u2, call.stats_orig, call.stats_enc).level)
        /\ ClampedUsage(call.usage) < 8000 => call.level = "LOW"
        /\ ClampedUsage(call.usage) >= 18000 => call.level # "LOW"
        /\ call.level = "HIGH" => ClampedUsage(call.usage) >= 40000

\* records under which the level takes all three values as the usage grows:
\* the call is at 0.18 and MEDIUM, the same records give LOW at 0.07999 and
\* HIGH at 0.40
RiskMonotoneWitness ==
    /\ call.op = "evaluate_risk"
    /\ ClampedUsage(call.usage) = 18000
    /\ call.level = "MEDIUM"
    /\ evaluate_risk(Ratio(7999, 100000), call.stats_orig, call.stats_enc).level = "LOW"
    /\ evaluate_risk(Ratio(40, 100), call.stats_orig, call.stats_enc).level = "HIGH"

(***************************************************************************)
(* The main window's visual analysis (main_window.py).  image and encoded  *)
(* are self.image and self.encoded_image; embedded holds the window's      *)
(* analysis fields; call holds the workers of the thread pool that have    *)
(* not delivered their signal yet, and what the last handler did.  Every   *)
(* handler runs to its end on the GUI thread; the workers' signals arrive  *)
(* in any order.                                                           *)
(***************************************************************************)
\* the requests of a session
MaxRequests == 2

\* the files the user can open
UiFiles == {NewImage(<<4, 3>>, "gradient"), NewImage(<<3, 3>>, "gray")}

\* what the user has typed, stripped: nothing, two short texts, a long one
UiMessages == {<<>>, <<65>>, <<66>>, Filler(20)}

AnalysisModes == {"split", "heatmap"}

\* _show_placeholder(self.analysis_view, ...)
Placeholder == [request_id |-> 0, original |-> NoImage, modified |-> NoImage, mode |-> ""]

\* the payload of build_analysis_preview, by what it was computed from
analysis_payload(w) == w

\* (image_signature, encoded_signature, analysis_mode, ...)
cache_key(original, modified, mode) == <<original, modified, mode>>

KeyOf(payload) == cache_key(payload.original, payload.modified, payload.mode)

UiInit ==
    /\ image = NoImage
    /\ encoded = NoImage
    /\ embedded = [analysis_request_id |-> 0, analysis_cache |-> {}, view |-> Placeholder,
                   analysis_mode |-> "split", timer |-> FALSE]
    /\ call = [op |-> "none", workers |-> {}, applied |-> FALSE, payload |-> Placeholder]

Handled(op, applied, payload, workers) ==
    call' = [op |-> op, workers |-> workers, applied |-> applied, payload |-> payload]

\* open_image: a file chosen
open_image(file) ==
    /\ image' = ToRGB(file)
    /\ encoded' = NoImage
    /\ embedded' = [embedded EXCEPT !.analysis_cache = {}, !.view = Placeholder]
    /\ Handled("open_image", FALSE, Placeholder, call.workers)

\* what encode_message leaves, r being what encode_text_into_image gave
encode_finished(r) ==
    IF r.err # "ok"
    THEN UNCHANGED <<encoded, embedded>>
    ELSE /\ encoded' = r.ret
         /\ embedded' = [embedded EXCEPT !.timer = TRUE]

\* encode_message: returns early without an image, with an empty message
\* and with one over the capacity
encode_message(msg) ==
    /\ image # NoImage
    /\ msg # <<>>
    /\ Len(Utf8Encode(msg)) <= max_message_bytes(image.size, 3).value
    /\ encode_finished(encode_text_into_image(image, msg, <<>>, 3, "sequential"))
    /\ UNCHANGED image
    /\ Handled("encode_message", FALSE, Placeholder, call.workers)

\* _set_analysis_mode
_set_analysis_mode(mode) ==
    /\ mode # embedded.analysis_mode
    /\ embedded' = [embedded EXCEPT !.analysis_mode = mode, !.timer = TRUE]
    /\ UNCHANGED <<image, encoded>>
    /\ Handled("set_analysis_mode", FALSE, Placeholder, call.workers)

\* the request that lines 551-579 make
requested(request_id, key) ==
    IF \E p \in embedded.analysis_cache : KeyOf(p) = key
    THEN LET hit == CHOOSE p \in embedded.analysis_cache : KeyOf(p) = key
         IN /\ embedded' = [embedded EXCEPT !.analysis_request_id = request_id,
                                            !.timer = FALSE, !.view = hit]
            /\ Handled("refresh", TRUE, hit, call.workers)
    ELSE /\ embedded' = [embedded EXCEPT !.analysis_request_id = request_id,
                                         !.timer = FALSE]
         /\ Handled("refresh", FALSE, Placeholder,
                    call.workers \cup {[request_id |-> request_id, original |-> image,
                                        modified |-> encoded,
                                        mode |-> embedded.analysis_mode]})

\* _refresh_visual_analysis, at the timeout of analysis_refresh_timer
_refresh_visual_analysis ==
    /\ embedded.timer
    /\ embedded.analysis_request_id < MaxRequests
    /\ IF image = NoImage \/ encoded = NoImage
       THEN /\ embedded' = [embedded EXCEPT !.timer = FALSE, !.view = Placeholder]
            /\ Handled("refresh", FALSE, Placeholder, call.workers)
       ELSE requested(embedded.analysis_request_id + 1,
                      cache_key(image, encoded, embedded.analysis_mode))
    /\ UNCHANGED <<image, encoded>>

\* _handle_analysis_result(cache_key, payload) for the signal of worker w
_handle_analysis_result(w) ==
    /\ w \in call.workers
    /\ IF analysis_payload(w).request_id # embedded.analysis_request_id
       THEN /\ UNCHANGED embedded
            /\ Handled("result", FALSE, analysis_payload(w), call.workers \ {w})
       ELSE /\ embedded' =
                 [embedded EXCEPT !.analysis_cache =
                                      {p \in @ : KeyOf(p) # KeyOf(analysis_payload(w))}
                                         \cup {analysis_payload(w)},
                                  !.view = analysis_payload(w)]
            /\ Handled("result", TRUE, analysis_payload(w), call.workers \ {w})
    /\ UNCHANGED <<image, encoded>>

\* _handle_analysis_error for the signal of worker w: only the hint changes
_handle_analysis_error(w) ==
    /\ w \in call.workers
    /\ UNCHANGED <<image, encoded, embedded>>
    /\ Handled("error", FALSE, Placeholder, call.workers \ {w})

UiNext ==
    \/ \E file \in UiFiles : open_image(file)
    \/ \E msg \in UiMessages : encode_message(msg)
    \/ \E mode \in AnalysisModes : _set_analysis_mode(mode)
    \/ _refresh_visual_analysis
    \/ \E w \in call.workers : _handle_analysis_result(w)
    \/ \E w \in call.workers : _handle_analysis_error(w)

UiSpec == UiInit /\ [][UiNext]_vars

\* C29: the result of an analysis worker is applied to the view and stored
\* in the cache only if its request id is the latest one issued and the
\* pair of images it was computed from is still the loaded pair.
StaleResultsDiscarded ==
    (call.op = "result" /\ call.applied) =>
        /\ call.payload.request_id = embedded.analysis_request_id
        /\ call.payload.original = image
        /\ call.payload.modified = encoded

(***************************************************************************)
(* The demo scenario (dialogs.py, DemoTimelineDialog; main_window.py,      *)
(* run_demo_mode).  image is self.image of the main window; call holds the *)
(* dialog: its steps, by whether the callable returns or raises, its       *)
(* fields, the single-shot timers not fired yet and the steps executed so  *)
(* far.  Every handler runs to its end on the GUI thread.                  *)
(***************************************************************************)
\* the steps of a scenario; run_demo_mode passes five
MaxSteps == 5

StepOutcomes == {"returns", "raises"}

RECURSIVE Scenarios(_)
Scenarios(n) ==
    IF n = 0 THEN {<<>>}
    ELSE LET shorter == Scenarios(n - 1)
         IN shorter \cup {Append(s, o) : s \in {t \in shorter : Len(t) = n - 1},
                                          o \in StepOutcomes}

NoDialog ==
    [op |-> "none", steps |-> <<>>, step_index |-> 0, completed |-> FALSE,
     btn_start |-> FALSE, btn_close |-> FALSE, visible |-> FALSE, started |-> FALSE,
     stopped |-> FALSE, timers |-> 0, ran |-> <<>>]

DemoInit ==
    /\ image \in {NoImage, NewImage(<<MinSide, MinSide>>, "gradient")}
    /\ encoded = NoImage
    /\ embedded = NoArgs
    /\ call = NoDialog

\* run_demo_mode up to timeline.exec(): a warning without an image, else
\* DemoTimelineDialog(steps) is shown
run_demo_mode(steps) ==
    /\ call.op = "none"
    /\ call' = IF image = NoImage THEN [NoDialog EXCEPT !.op = "warning"]
               ELSE [NoDialog EXCEPT !.op = "dialog", !.steps = steps, !.btn_start = TRUE,
                                     !.btn_close = TRUE, !.visible = TRUE]
    /\ UNCHANGED <<image, encoded, embedded>>

\* DemoTimelineDialog.start, on a click of the enabled button
start ==
    /\ call.op = "dialog"
    /\ call.visible
    /\ call.btn_start
    /\ call' = [call EXCEPT !.btn_start = FALSE, !.btn_close = FALSE, !.started = TRUE,
                            !.timers = @ + 1]
    /\ UNCHANGED <<image, encoded, embedded>>

\* the dialog closed by its button or by Escape: exec() returns, the timers
\* stay
reject ==
    /\ call.op = "dialog"
    /\ call.visible
    /\ call' = [call EXCEPT !.visible = FALSE]
    /\ UNCHANGED <<image, encoded, embedded>>

\* the scenario going on after a step that raised
_run_next_past_errors ==
    /\ call.op = "dialog"
    /\ call.timers > 0
    /\ call' = IF call.step_index >= Len(call.steps)
               THEN [call EXCEPT !.timers = @ - 1, !.completed = TRUE, !.btn_close = TRUE]
               ELSE [call EXCEPT !.ran = Append(@, call.step_index + 1),
                                 !.step_index = @ + 1]
    /\ UNCHANGED <<image, encoded, embedded>>

\* DemoTimelineDialog._run_next, at the timeout of a single-shot timer
_run_next ==
    /\ call.op = "dialog"
    /\ call.timers > 0
    /\ call' = IF call.step_index >= Len(call.steps)
               THEN [call EXCEPT !.timers = @ - 1, !.completed = TRUE, !.btn_close = TRUE]
               ELSE IF call.steps[call.step_index + 1] = "returns"
               THEN [call EXCEPT !.ran = Append(@, call.step_index + 1),
                                 !.step_index = @ + 1]
               ELSE [call EXCEPT !.timers = @ - 1,
                                 !.ran = Append(@, call.step_index + 1),
                                 !.stopped = TRUE, !.btn_close = TRUE]
    /\ UNCHANGED <<image, encoded, embedded>>

DemoNext ==
    \/ \E steps \in Scenarios(MaxSteps) : run_demo_mode(steps)
    \/ start
    \/ reject
    \/ _run_next

DemoSpec == DemoInit /\ [][DemoNext]_vars

\* a started single-shot timer fires
DemoFairSpec == DemoSpec /\ WF_vars(_run_next)

\* the steps executed so far are 1, 2, ..., in this order, each once, and
\* every one but the last has returned
RanInOrder ==
    /\ \A j \in 1..Len(call.ran) : call.ran[j] = j
    /\ \A j \in 1..(Len(call.ran) - 1) : call.steps[j] = "returns"
    /\ Len(call.ran) <= Len(call.steps)

DemoFinished == call.completed \/ call.stopped

\* C30: the steps run in list order, one at a time, each at most once, a
\* step only after the step before it returned; when a step raises the
\* scenario stops, no later step is executed and completed stays false;
\* completed is true only after every step has returned; and when the
\* timers fire, a started scenario eventually completes or stops at its
\* first failing step.
DemoRunsInOrder ==
    /\ [](call.op = "dialog" =>
            /\ RanInOrder
            /\ call.timers <= 1
            /\ call.stopped =>
                  (/\ call.steps[Len(call.ran)] = "raises"
                   /\ ~call.completed
                   /\ call.timers = 0)
            /\ call.completed =>
                  (/\ Len(call.ran) = Len(call.steps)
                   /\ \A j \in 1..Len(call.steps) : call.steps[j] = "returns"))
    /\ [][call.stopped => (call'.ran = call.ran /\ ~call'.completed)]_vars
    /\ [][call'.ran # call.ran => call'.ran = Append(call.ran, Len(call.ran) + 1)]_vars
    /\ ((call.op = "dialog" /\ call.started) ~> DemoFinished)

\* the third step raised after two returned, with two more steps left
DemoStoppedWitness ==
    /\ call.op = "dialog"
    /\ call.stopped
    /\ call.ran = <<1, 2, 3>>
    /\ Len(call.steps) = 5
    /\ call.steps[4] = "returns"
    /\ ~call.completed

====
